---- MODULE Spec2Model ----
(***************************************************************************)
(* State-machine model of the BFD session engine of proto/bfd/bfd.c:       *)
(* the per-session state machine, its TX and hold timers, the poll         *)
(* sequence, reconfiguration, and the notification path from the session   *)
(* thread to the requests of the control thread.                           *)
(*                                                                         *)
(* Time is abstract: a timer is armed or not, an armed timer may fire at   *)
(* any moment, and a timestamp (last_tx, last_rx) is 0 or 1, 1 standing    *)
(* for any non-zero time.  Intervals are small numbers of abstract units.  *)
(***************************************************************************)
EXTENDS Integers, Sequences, FiniteSets

(* ------------------------------ bounds ------------------------------- *)

\* Intervals (min_tx_int, min_rx_int, idle_tx_int) range over 1..MaxInterval.
MaxInterval == 2
\* Packets in flight per direction between the two engines of SpecPair.
MaxQueue == 2

\* Largest interval of the poll-sequence specification SpecPoll.
MaxPollInterval == 3

\* Most state changes of a session that SpecNotify follows.
MaxTrace == 4

\* The registry of SpecReg: addresses of neighbours, requests alive at a
\* time, and the modulus the discriminators are counted in (2^32 in the
\* program).
MaxAddrs == 2
MaxRequests == 2

\* Engines of the process in SpecSubmit.
MaxProtos == 2
IdMod == 3

(* ------------------------- program constants ------------------------- *)

BFD_STATE_ADMIN_DOWN == 0
BFD_STATE_DOWN == 1
BFD_STATE_INIT == 2
BFD_STATE_UP == 3

BFD_DIAG_NOTHING == 0
BFD_DIAG_TIMEOUT == 1
BFD_DIAG_NEIGHBOR_DOWN == 3

BFD_POLL_TX == 1
BFD_POLL_RX == 2

BfdStates == {BFD_STATE_ADMIN_DOWN, BFD_STATE_DOWN, BFD_STATE_INIT, BFD_STATE_UP}
BfdDiags == {BFD_DIAG_NOTHING, BFD_DIAG_TIMEOUT, BFD_DIAG_NEIGHBOR_DOWN}
Intervals == 1 .. MaxInterval
PollMasks == 0 .. 3

\* u8 masks over {BFD_POLL_TX, BFD_POLL_RX}: m & bit, m | n, m & ~n.
HasBit(m, bit) == (m \div bit) % 2 = 1
BitOr(m, n) ==
  (IF HasBit(m, BFD_POLL_TX) \/ HasBit(n, BFD_POLL_TX) THEN BFD_POLL_TX ELSE 0)
  + (IF HasBit(m, BFD_POLL_RX) \/ HasBit(n, BFD_POLL_RX) THEN BFD_POLL_RX ELSE 0)
BitAndNot(m, n) ==
  (IF HasBit(m, BFD_POLL_TX) /\ ~HasBit(n, BFD_POLL_TX) THEN BFD_POLL_TX ELSE 0)
  + (IF HasBit(m, BFD_POLL_RX) /\ ~HasBit(n, BFD_POLL_RX) THEN BFD_POLL_RX ELSE 0)

MAX(a, b) == IF a > b THEN a ELSE b

(* ------------------------------ state -------------------------------- *)

VARIABLES
  sess,         \* registered sessions: session id -> struct bfd_session
  reqs,         \* requests: request id -> struct bfd_request
  notify_list,  \* p->notify_list of each engine: sequence of session ids
  tmp_list,     \* tmp_list of a running bfd_notify_hook, per engine
  pipe,         \* per engine: the notify pipe holds a kick
  chan,         \* control packets in flight to each session (SpecPair)
  hist,         \* per request: the (state, diag) pairs delivered to it
  silent,       \* the peer has stopped transmitting (peer-silence scenario)
  trace,        \* per session: <<loc_state, rem_state>> at each state change (SpecNotify)
  ifaces,       \* per engine: use count ifa->uc of its interface, 0 when freed
  proto_list,   \* bfd_proto_list: the running engines, in the order they started
  wait_list,    \* bfd_wait_list: the requests no engine has accepted
  cfg,          \* per engine: its struct bfd_config, with the VRF of the protocol
  ifa,          \* per engine: ifa->cf and ifa->changed of its interface
  thr           \* where the two threads are inside an operation, and the locks
                \* they hold (SpecKick, SpecThreads); empty where operations are one step

vars == <<sess, reqs, notify_list, tmp_list, pipe, chan, hist, silent, trace, ifaces,
          proto_list, wait_list, cfg, ifa, thr>>

\* The configuration of an engine that accepts every request.
AcceptAll ==
  [vrf_set |-> FALSE, vrf |-> 0,
   accept_ipv4 |-> TRUE, accept_ipv6 |-> TRUE,
   accept_direct |-> TRUE, accept_multihop |-> TRUE,
   strict_bind |-> FALSE, zero_udp6_checksum_rx |-> FALSE]

(* ----------------------- timers (lib/timer.c) ------------------------ *)

\* tm_stop(s->tx_timer)
tm_stop_tx(s) == [s EXCEPT !.tx_active = FALSE]
\* tm_start(s->tx_timer, 0) and tm_set(s->tx_timer, when)
tm_set_tx(s) == [s EXCEPT !.tx_active = TRUE]
\* tm_set(s->hold_timer, s->last_rx + timeout)
tm_set_hold(s, timeout) == [s EXCEPT !.hold_active = TRUE, !.hold_timeout = timeout]

(* --------------------------- BFD sessions ---------------------------- *)

bfd_default_iface ==
  [min_rx_int |-> 1, min_tx_int |-> 1, idle_tx_int |-> MaxInterval,
   multiplier |-> 3, passive |-> FALSE]

\* struct bfd_options: 0 is "unset" for the numbers, passive_set for passive.
NoOptions ==
  [min_rx_int |-> 0, min_tx_int |-> 0, idle_tx_int |-> 0, multiplier |-> 0,
   passive |-> FALSE, passive_set |-> FALSE]

bfd_merge_options(cf, opts) ==
  [min_rx_int |-> IF opts.min_rx_int # 0 THEN opts.min_rx_int ELSE cf.min_rx_int,
   min_tx_int |-> IF opts.min_tx_int # 0 THEN opts.min_tx_int ELSE cf.min_tx_int,
   idle_tx_int |-> IF opts.idle_tx_int # 0 THEN opts.idle_tx_int ELSE cf.idle_tx_int,
   multiplier |-> IF opts.multiplier # 0 THEN opts.multiplier ELSE cf.multiplier,
   passive |-> IF opts.passive_set THEN opts.passive ELSE cf.passive]

bfd_session_update_tx_interval(s) ==
  LET tx_int == MAX(s.des_min_tx_int, s.rem_min_rx_int)
      tx_int_l == tx_int - (tx_int \div 4)
      tx_int_h == tx_int - (tx_int \div 10)
      t == [s EXCEPT !.tx_recurrent = tx_int_l, !.tx_randomize = tx_int_h - tx_int_l]
  IN IF t.last_tx = 0 THEN t ELSE tm_set_tx(t)

bfd_session_update_detection_time(s, kick) ==
  LET timeout == MAX(s.req_min_rx_int, s.rem_min_tx_int) * s.rem_detect_mult
      t == IF kick THEN [s EXCEPT !.last_rx = 1] ELSE s
  IN IF t.last_rx = 0 THEN t ELSE tm_set_hold(t, timeout)

\* bfd_session_control_tx_timer without the test of rem_min_rx_int.
bfd_session_control_tx_timer_no_rx_check(s, reset) ==
  IF \/ s.passive /\ s.rem_id = 0
     \/ /\ s.rem_demand_mode
        /\ s.poll_active = 0
        /\ s.loc_state = BFD_STATE_UP
        /\ s.rem_state = BFD_STATE_UP
  THEN [tm_stop_tx(s) EXCEPT !.last_tx = 0]
  ELSE IF reset \/ ~s.tx_active
       THEN tm_set_tx([s EXCEPT !.last_tx = 0])
       ELSE s

\* bfd_session_control_tx_timer whose demand-mode test ignores poll_active.
bfd_session_control_tx_timer_ignores_poll(s, reset) ==
  IF \/ s.passive /\ s.rem_id = 0
     \/ /\ s.rem_demand_mode
        /\ s.loc_state = BFD_STATE_UP
        /\ s.rem_state = BFD_STATE_UP
     \/ s.rem_min_rx_int = 0
  THEN [tm_stop_tx(s) EXCEPT !.last_tx = 0]
  ELSE IF reset \/ ~s.tx_active
       THEN tm_set_tx([s EXCEPT !.last_tx = 0])
       ELSE s

bfd_session_control_tx_timer(s, reset) ==
  IF \/ s.passive /\ s.rem_id = 0
     \/ /\ s.rem_demand_mode
        /\ s.poll_active = 0
        /\ s.loc_state = BFD_STATE_UP
        /\ s.rem_state = BFD_STATE_UP
     \/ s.rem_min_rx_int = 0
  THEN [tm_stop_tx(s) EXCEPT !.last_tx = 0]
  ELSE IF reset \/ ~s.tx_active
       THEN tm_set_tx([s EXCEPT !.last_tx = 0])
       ELSE s

\* bfd_session_request_poll without the test of rem_id.
bfd_session_request_poll_no_rem_id_test(s, request) ==
  LET t == [s EXCEPT !.poll_scheduled = BitOr(s.poll_scheduled, request)]
  IN IF t.poll_active # 0 THEN t
     ELSE bfd_session_control_tx_timer(
            [t EXCEPT !.poll_active = t.poll_scheduled, !.poll_scheduled = 0],
            TRUE)

bfd_session_request_poll(s, request) ==
  IF s.rem_id = 0 THEN s
  ELSE LET t == [s EXCEPT !.poll_scheduled = BitOr(s.poll_scheduled, request)]
       IN IF t.poll_active # 0 THEN t
          ELSE bfd_session_control_tx_timer(
                 [t EXCEPT !.poll_active = t.poll_scheduled, !.poll_scheduled = 0],
                 TRUE)

\* bfd_session_terminate_poll that commits every active bit, scheduled
\* again or not.
bfd_session_terminate_poll_all_active(s) ==
  [s EXCEPT
     !.des_min_tx_int = IF HasBit(s.poll_active, BFD_POLL_TX)
                        THEN s.des_min_tx_new ELSE @,
     !.req_min_rx_int = IF HasBit(s.poll_active, BFD_POLL_RX)
                        THEN s.req_min_rx_new ELSE @,
     !.poll_active = s.poll_scheduled,
     !.poll_scheduled = 0]

bfd_session_terminate_poll(s) ==
  LET poll_done == BitAndNot(s.poll_active, s.poll_scheduled)
  IN [s EXCEPT
        !.des_min_tx_int = IF HasBit(poll_done, BFD_POLL_TX)
                           THEN s.des_min_tx_new ELSE @,
        !.req_min_rx_int = IF HasBit(poll_done, BFD_POLL_RX)
                           THEN s.req_min_rx_new ELSE @,
        !.poll_active = s.poll_scheduled,
        !.poll_scheduled = 0]

\* bfd_session_set_min_tx that postpones a decrease instead of an increase.
bfd_session_set_min_tx_reversed(s, val) ==
  IF val = s.des_min_tx_new THEN s
  ELSE LET t == [s EXCEPT !.des_min_tx_new = val]
           u == IF t.loc_state # BFD_STATE_UP \/ val > t.des_min_tx_int
                THEN bfd_session_update_tx_interval([t EXCEPT !.des_min_tx_int = val])
                ELSE t
       IN bfd_session_request_poll(u, BFD_POLL_TX)

bfd_session_set_min_tx(s, val) ==
  IF val = s.des_min_tx_new THEN s
  ELSE LET t == [s EXCEPT !.des_min_tx_new = val]
           u == IF t.loc_state # BFD_STATE_UP \/ val < t.des_min_tx_int
                THEN bfd_session_update_tx_interval([t EXCEPT !.des_min_tx_int = val])
                ELSE t
       IN bfd_session_request_poll(u, BFD_POLL_TX)

\* bfd_session_set_min_rx that postpones an increase instead of a decrease.
bfd_session_set_min_rx_reversed(s, val) ==
  IF val = s.req_min_rx_new THEN s
  ELSE LET t == [s EXCEPT !.req_min_rx_new = val]
           u == IF t.loc_state # BFD_STATE_UP \/ val < t.req_min_rx_int
                THEN bfd_session_update_detection_time(
                       [t EXCEPT !.req_min_rx_int = val], FALSE)
                ELSE t
       IN bfd_session_request_poll(u, BFD_POLL_RX)

bfd_session_set_min_rx(s, val) ==
  IF val = s.req_min_rx_new THEN s
  ELSE LET t == [s EXCEPT !.req_min_rx_new = val]
           u == IF t.loc_state # BFD_STATE_UP \/ val > t.req_min_rx_int
                THEN bfd_session_update_detection_time(
                       [t EXCEPT !.req_min_rx_int = val], FALSE)
                ELSE t
       IN bfd_session_request_poll(u, BFD_POLL_RX)

\* bfd_session_update_state that links the session and never writes the
\* kick.
bfd_session_update_state_no_kick(s, state, diag) ==
  IF state = s.loc_state THEN s
  ELSE LET old_state == s.loc_state
           a == [s EXCEPT !.loc_state = state, !.loc_diag = diag, !.linked = TRUE]
           b == IF state = BFD_STATE_UP
                THEN bfd_session_set_min_tx(a, a.cf.min_tx_int) ELSE a
       IN IF old_state = BFD_STATE_UP
          THEN bfd_session_set_min_tx(b, b.cf.idle_tx_int) ELSE b

\* bfd_session_update_state that does not schedule a notification for a
\* change to Init.
bfd_session_update_state_init_unlinked(s, state, diag) ==
  IF state = s.loc_state THEN s
  ELSE LET old_state == s.loc_state
           notify == ~s.linked /\ state # BFD_STATE_INIT
           a == [s EXCEPT !.loc_state = state, !.loc_diag = diag,
                          !.linked = @ \/ notify]
           b == IF state = BFD_STATE_UP
                THEN bfd_session_set_min_tx(a, a.cf.min_tx_int) ELSE a
           c == IF old_state = BFD_STATE_UP
                THEN bfd_session_set_min_tx(b, b.cf.idle_tx_int) ELSE b
       IN [c EXCEPT !.kicked = @ \/ notify]

\* The session is linked (s->n) when it was not; the kick is written at the
\* end.  The record's field kicked carries the pipe_kick() to the action.
\* last_state_change, a timestamp, is not part of the abstract state.
bfd_session_update_state(s, state, diag) ==
  IF state = s.loc_state THEN s
  ELSE LET old_state == s.loc_state
           notify == ~s.linked
           a == [s EXCEPT !.loc_state = state, !.loc_diag = diag, !.linked = TRUE]
           b == IF state = BFD_STATE_UP
                THEN bfd_session_set_min_tx(a, a.cf.min_tx_int) ELSE a
           c == IF old_state = BFD_STATE_UP
                THEN bfd_session_set_min_tx(b, b.cf.idle_tx_int) ELSE b
       IN [c EXCEPT !.kicked = @ \/ notify]

\* bfd_send_ctl(p, s, final) of packets.c: the control packet built from the
\* session, appended to what the running handler has sent.
bfd_send_ctl(s, final) ==
  [s EXCEPT !.out = Append(@,
     [state |-> s.loc_state,
      snd_id |-> s.loc_id,
      rcv_id |-> s.rem_id,
      des_min_tx_int |-> s.des_min_tx_new,
      req_min_rx_int |-> s.req_min_rx_new,
      detect_mult |-> s.detect_mult,
      demand |-> FALSE,
      poll |-> ~final /\ s.poll_active # 0,
      final |-> final])]

\* bfd_next_state with the Up row falling back to Init on a remote Down.
bfd_next_state_up_to_init(loc_state, rem_state) ==
  CASE loc_state = BFD_STATE_DOWN ->
         IF rem_state = BFD_STATE_DOWN
         THEN [next_state |-> BFD_STATE_INIT, diag |-> BFD_DIAG_NOTHING]
         ELSE IF rem_state = BFD_STATE_INIT
         THEN [next_state |-> BFD_STATE_UP, diag |-> BFD_DIAG_NOTHING]
         ELSE [next_state |-> 0, diag |-> BFD_DIAG_NOTHING]
    [] loc_state = BFD_STATE_INIT ->
         IF rem_state = BFD_STATE_ADMIN_DOWN
         THEN [next_state |-> BFD_STATE_DOWN, diag |-> BFD_DIAG_NEIGHBOR_DOWN]
         ELSE IF rem_state >= BFD_STATE_INIT
         THEN [next_state |-> BFD_STATE_UP, diag |-> BFD_DIAG_NOTHING]
         ELSE [next_state |-> 0, diag |-> BFD_DIAG_NOTHING]
    [] loc_state = BFD_STATE_UP ->
         IF rem_state = BFD_STATE_ADMIN_DOWN
         THEN [next_state |-> BFD_STATE_DOWN, diag |-> BFD_DIAG_NEIGHBOR_DOWN]
         ELSE IF rem_state = BFD_STATE_DOWN
         THEN [next_state |-> BFD_STATE_INIT, diag |-> BFD_DIAG_NOTHING]
         ELSE [next_state |-> 0, diag |-> BFD_DIAG_NOTHING]
    [] OTHER -> [next_state |-> 0, diag |-> BFD_DIAG_NOTHING]

\* bfd_next_state with the Down row sending a session to Up on a remote Up
\* as well as on a remote Init.
bfd_next_state_down_on_up(loc_state, rem_state) ==
  CASE loc_state = BFD_STATE_DOWN ->
         IF rem_state = BFD_STATE_DOWN
         THEN [next_state |-> BFD_STATE_INIT, diag |-> BFD_DIAG_NOTHING]
         ELSE IF rem_state >= BFD_STATE_INIT
         THEN [next_state |-> BFD_STATE_UP, diag |-> BFD_DIAG_NOTHING]
         ELSE [next_state |-> 0, diag |-> BFD_DIAG_NOTHING]
    [] loc_state = BFD_STATE_INIT ->
         IF rem_state = BFD_STATE_ADMIN_DOWN
         THEN [next_state |-> BFD_STATE_DOWN, diag |-> BFD_DIAG_NEIGHBOR_DOWN]
         ELSE IF rem_state >= BFD_STATE_INIT
         THEN [next_state |-> BFD_STATE_UP, diag |-> BFD_DIAG_NOTHING]
         ELSE [next_state |-> 0, diag |-> BFD_DIAG_NOTHING]
    [] loc_state = BFD_STATE_UP ->
         IF rem_state <= BFD_STATE_DOWN
         THEN [next_state |-> BFD_STATE_DOWN, diag |-> BFD_DIAG_NEIGHBOR_DOWN]
         ELSE [next_state |-> 0, diag |-> BFD_DIAG_NOTHING]
    [] OTHER -> [next_state |-> 0, diag |-> BFD_DIAG_NOTHING]

\* bfd_next_state with the Up row reacting to a remote AdminDown only.
bfd_next_state_up_ignores_down(loc_state, rem_state) ==
  CASE loc_state = BFD_STATE_DOWN ->
         IF rem_state = BFD_STATE_DOWN
         THEN [next_state |-> BFD_STATE_INIT, diag |-> BFD_DIAG_NOTHING]
         ELSE IF rem_state = BFD_STATE_INIT
         THEN [next_state |-> BFD_STATE_UP, diag |-> BFD_DIAG_NOTHING]
         ELSE [next_state |-> 0, diag |-> BFD_DIAG_NOTHING]
    [] loc_state = BFD_STATE_INIT ->
         IF rem_state = BFD_STATE_ADMIN_DOWN
         THEN [next_state |-> BFD_STATE_DOWN, diag |-> BFD_DIAG_NEIGHBOR_DOWN]
         ELSE IF rem_state >= BFD_STATE_INIT
         THEN [next_state |-> BFD_STATE_UP, diag |-> BFD_DIAG_NOTHING]
         ELSE [next_state |-> 0, diag |-> BFD_DIAG_NOTHING]
    [] loc_state = BFD_STATE_UP ->
         IF rem_state = BFD_STATE_ADMIN_DOWN
         THEN [next_state |-> BFD_STATE_DOWN, diag |-> BFD_DIAG_NEIGHBOR_DOWN]
         ELSE [next_state |-> 0, diag |-> BFD_DIAG_NOTHING]
    [] OTHER -> [next_state |-> 0, diag |-> BFD_DIAG_NOTHING]

\* The next state and diagnostic of the switch in bfd_session_process_ctl;
\* next_state 0 means no change.
bfd_next_state(loc_state, rem_state) ==
  CASE loc_state = BFD_STATE_DOWN ->
         IF rem_state = BFD_STATE_DOWN
         THEN [next_state |-> BFD_STATE_INIT, diag |-> BFD_DIAG_NOTHING]
         ELSE IF rem_state = BFD_STATE_INIT
         THEN [next_state |-> BFD_STATE_UP, diag |-> BFD_DIAG_NOTHING]
         ELSE [next_state |-> 0, diag |-> BFD_DIAG_NOTHING]
    [] loc_state = BFD_STATE_INIT ->
         IF rem_state = BFD_STATE_ADMIN_DOWN
         THEN [next_state |-> BFD_STATE_DOWN, diag |-> BFD_DIAG_NEIGHBOR_DOWN]
         ELSE IF rem_state >= BFD_STATE_INIT
         THEN [next_state |-> BFD_STATE_UP, diag |-> BFD_DIAG_NOTHING]
         ELSE [next_state |-> 0, diag |-> BFD_DIAG_NOTHING]
    [] loc_state = BFD_STATE_UP ->
         IF rem_state <= BFD_STATE_DOWN
         THEN [next_state |-> BFD_STATE_DOWN, diag |-> BFD_DIAG_NEIGHBOR_DOWN]
         ELSE [next_state |-> 0, diag |-> BFD_DIAG_NOTHING]
    [] OTHER -> [next_state |-> 0, diag |-> BFD_DIAG_NOTHING]

\* bfd_session_process_ctl that answers the Poll before the state is
\* updated.
bfd_session_process_ctl_reply_first(s, poll, final, old_tx_int, old_rx_int) ==
  LET a == IF s.poll_active # 0 /\ final THEN bfd_session_terminate_poll(s) ELSE s
      b == IF a.des_min_tx_int # old_tx_int \/ a.rem_min_rx_int # old_rx_int
           THEN bfd_session_update_tx_interval(a) ELSE a
      c == bfd_session_update_detection_time(b, TRUE)
      r == IF poll THEN bfd_send_ctl(c, TRUE) ELSE c
      n == bfd_next_state(r.loc_state, r.rem_state)
      d == IF n.next_state # 0
           THEN bfd_session_update_state(r, n.next_state, n.diag) ELSE r
  IN IF c.loc_state = BFD_STATE_ADMIN_DOWN THEN c
     ELSE bfd_session_control_tx_timer(d, FALSE)

bfd_session_process_ctl(s, poll, final, old_tx_int, old_rx_int) ==
  LET a == IF s.poll_active # 0 /\ final THEN bfd_session_terminate_poll(s) ELSE s
      b == IF a.des_min_tx_int # old_tx_int \/ a.rem_min_rx_int # old_rx_int
           THEN bfd_session_update_tx_interval(a) ELSE a
      c == bfd_session_update_detection_time(b, TRUE)
      n == bfd_next_state(c.loc_state, c.rem_state)
      d == IF n.next_state # 0
           THEN bfd_session_update_state(c, n.next_state, n.diag) ELSE c
      e == bfd_session_control_tx_timer(d, FALSE)
  IN IF c.loc_state = BFD_STATE_ADMIN_DOWN THEN c
     ELSE IF poll THEN bfd_send_ctl(e, TRUE) ELSE e

\* bfd_session_timeout that leaves the poll masks and the remote required
\* min RX interval as they were.
bfd_session_timeout_keeps_poll(s) ==
  LET a == [s EXCEPT !.rem_state = BFD_STATE_DOWN,
                     !.rem_id = 0,
                     !.rem_min_tx_int = 0,
                     !.rem_demand_mode = FALSE,
                     !.rem_detect_mult = 0]
      b == bfd_session_update_state(a, BFD_STATE_DOWN, BFD_DIAG_TIMEOUT)
  IN bfd_session_control_tx_timer(b, TRUE)

bfd_session_timeout(s) ==
  LET a == [s EXCEPT !.rem_state = BFD_STATE_DOWN,
                     !.rem_id = 0,
                     !.rem_min_tx_int = 0,
                     !.rem_min_rx_int = 1,
                     !.rem_demand_mode = FALSE,
                     !.rem_detect_mult = 0,
                     !.poll_active = 0,
                     !.poll_scheduled = 0]
      b == bfd_session_update_state(a, BFD_STATE_DOWN, BFD_DIAG_TIMEOUT)
  IN bfd_session_control_tx_timer(b, TRUE)

\* The timer has fired: a recurrent timer is set again, another one stops.
bfd_tx_timer_hook(s) ==
  LET t == IF s.tx_recurrent # 0 THEN s ELSE tm_stop_tx(s)
  IN bfd_send_ctl([t EXCEPT !.last_tx = 1], FALSE)

bfd_hold_timer_hook(s) ==
  bfd_session_timeout([s EXCEPT !.hold_active = FALSE])

\* bfd_add_session for the session with discriminator id of engine p, its
\* request list already holding the request that created it.
bfd_add_session(p, id, opts, rl) ==
  LET cf == bfd_merge_options(bfd_default_iface, opts)
      s == [bfd |-> p, loc_id |-> id, cf |-> cf,
            loc_state |-> BFD_STATE_DOWN, loc_diag |-> BFD_DIAG_NOTHING,
            rem_state |-> BFD_STATE_DOWN, rem_id |-> 0,
            rem_min_tx_int |-> 0, rem_min_rx_int |-> 1,
            rem_demand_mode |-> FALSE, rem_detect_mult |-> 0,
            des_min_tx_int |-> cf.idle_tx_int, des_min_tx_new |-> cf.idle_tx_int,
            req_min_rx_int |-> cf.min_rx_int, req_min_rx_new |-> cf.min_rx_int,
            detect_mult |-> cf.multiplier, passive |-> cf.passive,
            poll_active |-> 0, poll_scheduled |-> 0,
            tx_active |-> FALSE, tx_recurrent |-> 0, tx_randomize |-> 0,
            hold_active |-> FALSE, hold_timeout |-> 0,
            last_tx |-> 0, last_rx |-> 0,
            linked |-> FALSE, notify_running |-> FALSE, request_list |-> rl,
            kicked |-> FALSE, out |-> <<>>]
  IN bfd_session_control_tx_timer(bfd_session_update_tx_interval(s), TRUE)

\* bfd_reconfigure_session without its closing bfd_session_control_tx_timer.
bfd_reconfigure_session_no_control(s, head_opts) ==
  IF s.request_list = <<>> THEN s
  ELSE LET a == [s EXCEPT !.cf = bfd_merge_options(bfd_default_iface, head_opts)]
           tx == IF a.loc_state = BFD_STATE_UP
                 THEN a.cf.min_tx_int ELSE a.cf.idle_tx_int
           b == bfd_session_set_min_tx(a, tx)
           c == bfd_session_set_min_rx(b, b.cf.min_rx_int)
       IN [c EXCEPT !.detect_mult = c.cf.multiplier, !.passive = c.cf.passive]

\* bfd_reconfigure_session that takes a session whose intervals changed
\* back to Down.
bfd_reconfigure_session_restarts(s, head_opts) ==
  IF s.request_list = <<>> THEN s
  ELSE LET a == [s EXCEPT !.cf = bfd_merge_options(bfd_default_iface, head_opts)]
           tx == IF a.loc_state = BFD_STATE_UP
                 THEN a.cf.min_tx_int ELSE a.cf.idle_tx_int
           b == bfd_session_set_min_tx(a, tx)
           c == bfd_session_set_min_rx(b, b.cf.min_rx_int)
           d == [c EXCEPT !.detect_mult = c.cf.multiplier, !.passive = c.cf.passive]
           e == IF d.poll_active # s.poll_active
                THEN bfd_session_update_state(d, BFD_STATE_DOWN, BFD_DIAG_NOTHING)
                ELSE d
       IN bfd_session_control_tx_timer(e, FALSE)

bfd_reconfigure_session(s, head_opts) ==
  IF s.request_list = <<>> THEN s
  ELSE LET a == [s EXCEPT !.cf = bfd_merge_options(bfd_default_iface, head_opts)]
           tx == IF a.loc_state = BFD_STATE_UP
                 THEN a.cf.min_tx_int ELSE a.cf.idle_tx_int
           b == bfd_session_set_min_tx(a, tx)
           c == bfd_session_set_min_rx(b, b.cf.min_rx_int)
           d == [c EXCEPT !.detect_mult = c.cf.multiplier, !.passive = c.cf.passive]
       IN bfd_session_control_tx_timer(d, FALSE)

(* --------------------------- BFD requests ---------------------------- *)

\* bfd_request_notify that takes the down flag from the local states alone.
bfd_request_notify_down_unset(req, state, remote, diag) ==
  IF state = req.state THEN req
  ELSE [req EXCEPT
          !.state = state,
          !.diag = diag,
          !.old_state = req.state,
          !.down = /\ req.state = BFD_STATE_UP
                   /\ state = BFD_STATE_DOWN
                   /\ remote = BFD_STATE_ADMIN_DOWN]

bfd_request_notify(req, state, remote, diag) ==
  IF state = req.state THEN req
  ELSE [req EXCEPT
          !.state = state,
          !.diag = diag,
          !.old_state = req.state,
          !.down = /\ req.state = BFD_STATE_UP
                   /\ state = BFD_STATE_DOWN
                   /\ remote # BFD_STATE_ADMIN_DOWN]

\* bfd_request_session: the request is attached by bfd_add_request while
\* its hook is still NULL, and gets the session's state without a callback.
bfd_request_session(sid, opts, s) ==
  LET req == [session |-> sid, opts |-> opts,
              state |-> BFD_STATE_ADMIN_DOWN, diag |-> BFD_DIAG_NOTHING,
              old_state |-> BFD_STATE_ADMIN_DOWN, down |-> FALSE,
              hook |-> FALSE]
  IN [bfd_request_notify(req, s.loc_state, s.rem_state, s.loc_diag)
        EXCEPT !.hook = TRUE]

(* ----------------------- registry of sessions ------------------------ *)

\* The operations of the main thread on the registry take and return a
\* record w of the sessions (by neighbour address, as session_hash_ip), the
\* requests, the two notify lists and the interfaces' use counts.
World == [sess |-> sess, reqs |-> reqs, notify_list |-> notify_list,
          tmp_list |-> tmp_list, ifaces |-> ifaces]

Without(f, x) == [a \in DOMAIN f \ {x} |-> f[a]]
With(f, x, v) == [a \in DOMAIN f \cup {x} |-> IF a = x THEN v ELSE f[a]]
Unlinked(l, x) == SelectSeq(l, LAMBDA y : y # x)

\* bfd_get_free_id: from a random start, the first id that is not 0 and not
\* in use, counting modulo IdMod.
RECURSIVE bfd_get_free_id(_, _)
\* bfd_get_free_id that tests only whether the id is in use.
bfd_get_free_id_keeps_zero(used, id) ==
  IF id \notin used THEN id
  ELSE bfd_get_free_id(used, (id + 1) % IdMod)

\* bfd_get_free_id that does not look the id up among the sessions.
bfd_get_free_id_any_nonzero(used, id) ==
  IF id # 0 THEN id
  ELSE bfd_get_free_id(used, (id + 1) % IdMod)

bfd_get_free_id(used, id) ==
  IF id # 0 /\ id \notin used THEN id
  ELSE bfd_get_free_id(used, (id + 1) % IdMod)

\* bfd_get_iface and bfd_free_iface on the one interface of engine p.
bfd_get_iface(w, p) == [w EXCEPT !.ifaces[p] = @ + 1]
bfd_free_iface(w, p) == [w EXCEPT !.ifaces[p] = @ - 1]

bfd_remove_session(w, sid) ==
  LET p == w.sess[sid].bfd
      u == IF w.sess[sid].linked
           THEN [w EXCEPT !.notify_list[p] = Unlinked(@, sid),
                          !.tmp_list[p] = Unlinked(@, sid)]
           ELSE w
  IN [bfd_free_iface(u, p) EXCEPT !.sess = Without(@, sid)]

\* bfd_request_free that removes the session of the last request even
\* while bfd_notify_hook is walking its requests.
bfd_request_free_ignores_running(w, r) ==
  LET sid == w.reqs[r].session
      u == [w EXCEPT !.reqs = Without(@, r),
                     !.sess[sid].request_list = Unlinked(@, r)]
  IN IF u.sess[sid].request_list = <<>>
     THEN bfd_remove_session(u, sid)
     ELSE u

\* bfd_request_free that leaves the session of the last request registered.
bfd_request_free_keeps_session(w, r) ==
  LET sid == w.reqs[r].session
  IN [w EXCEPT !.reqs = Without(@, r),
               !.sess[sid].request_list = Unlinked(@, r)]

bfd_request_free(w, r) ==
  LET sid == w.reqs[r].session
      u == [w EXCEPT !.reqs = Without(@, r),
                     !.sess[sid].request_list = Unlinked(@, r)]
  IN IF u.sess[sid].request_list = <<>> /\ ~u.sess[sid].notify_running
     THEN bfd_remove_session(u, sid)
     ELSE u

\* bfd_add_request for a new request r to neighbour a (bfd_request_session
\* and bfd_submit_request around it): the session is found by address or
\* added with a free id, and the request joins the tail of its list.
bfd_add_request(w, p, r, a, opts, start) ==
  LET ids == {w.sess[b].loc_id : b \in {c \in DOMAIN w.sess : w.sess[c].bfd = p}}
      u == IF a \in DOMAIN w.sess THEN w
           ELSE [bfd_get_iface(w, p) EXCEPT
                   !.sess = With(@, a, bfd_add_session(p, bfd_get_free_id(ids, start),
                                                       opts, <<>>))]
      v == [u EXCEPT !.sess[a].request_list = Append(@, r)]
  IN [v EXCEPT !.reqs = With(@, r, bfd_request_session(a, opts, v.sess[a]))]

(* ------------------------ packets (packets.c) ------------------------ *)

PeerIds == {9}
Multipliers == {3}

\* Control packets a peer implementation may send to the session with
\* discriminator id: every state and flag combination, with or without a
\* required min RX interval of 0, in demand mode or not.
EnvPackets(id) ==
  [state : BfdStates, snd_id : PeerIds, rcv_id : {id},
   des_min_tx_int : {1}, req_min_rx_int : {0, 1},
   detect_mult : Multipliers, demand : BOOLEAN, poll : BOOLEAN, final : BOOLEAN]

\* The packets of a peer that never asks for demand mode nor for silence,
\* and that may not know the session's discriminator yet.
PlainPackets(id) ==
  [state : BfdStates, snd_id : PeerIds, rcv_id : {0, id},
   des_min_tx_int : {1}, req_min_rx_int : {1},
   detect_mult : Multipliers, demand : {FALSE}, poll : BOOLEAN, final : BOOLEAN]

\* The validation of bfd_rx_hook that concerns the modelled fields.
bfd_rx_accepts(s, pkt) ==
  /\ pkt.detect_mult # 0
  /\ pkt.snd_id # 0
  /\ pkt.rcv_id \in {0, s.loc_id}
  /\ pkt.rcv_id = 0 => s.loc_state \in {BFD_STATE_DOWN, BFD_STATE_ADMIN_DOWN}

\* bfd_rx_hook on an accepted packet: the remote fields are taken from the
\* packet and bfd_session_process_ctl runs.
bfd_rx_hook(s, pkt) ==
  LET t == [s EXCEPT !.rem_id = pkt.snd_id,
                     !.rem_state = pkt.state,
                     !.rem_demand_mode = pkt.demand,
                     !.rem_min_tx_int = pkt.des_min_tx_int,
                     !.rem_min_rx_int = pkt.req_min_rx_int,
                     !.rem_detect_mult = pkt.detect_mult]
  IN bfd_session_process_ctl(t, pkt.poll, pkt.final,
                             s.des_min_tx_int, s.rem_min_rx_int)

(* ------------------------------ actions ------------------------------ *)

Sessions == DOMAIN sess
Requests == DOMAIN reqs
Engines == DOMAIN notify_list

\* The session each session's packets go to (the two engines of SpecPair).
Peer(sid) == 3 - sid

\* The end of a session-thread handler or control-thread critical section
\* that left session sid as t: the session newly linked is on the engine's
\* notify list, a kick is in the pipe, and the packets sent are in flight
\* to the peer when there is one (a full queue loses them).
Commit(sid, t, toPeer) ==
  LET p == t.bfd
      room == IF toPeer THEN MaxQueue - Len(chan[Peer(sid)]) ELSE 0
      sent == IF Len(t.out) <= room THEN t.out ELSE SubSeq(t.out, 1, room)
  IN /\ sess' = [sess EXCEPT ![sid] = [t EXCEPT !.kicked = FALSE, !.out = <<>>]]
     /\ notify_list' = IF t.linked /\ ~sess[sid].linked
                       THEN [notify_list EXCEPT ![p] = Append(@, sid)]
                       ELSE notify_list
     /\ pipe' = [pipe EXCEPT ![p] = @ \/ t.kicked]
     /\ chan' = IF toPeer
                THEN [chan EXCEPT ![Peer(sid)] = @ \o sent]
                ELSE chan

\* A control packet of some peer arrives and passes validation.
Rx(sid, pkt) ==
  /\ ~silent
  /\ bfd_rx_accepts(sess[sid], pkt)
  /\ Commit(sid, bfd_rx_hook(sess[sid], pkt), FALSE)
  /\ UNCHANGED <<reqs, tmp_list, hist, silent, trace, ifaces, proto_list, wait_list, cfg, ifa, thr>>

\* The TX timer fires.
TxTimer(sid) ==
  /\ sess[sid].tx_active
  /\ Commit(sid, bfd_tx_timer_hook(sess[sid]), FALSE)
  /\ UNCHANGED <<reqs, tmp_list, hist, silent, trace, ifaces, proto_list, wait_list, cfg, ifa, thr>>

\* The hold timer fires.
HoldTimer(sid) ==
  /\ sess[sid].hold_active
  /\ Commit(sid, bfd_hold_timer_hook(sess[sid]), FALSE)
  /\ UNCHANGED <<reqs, tmp_list, hist, silent, trace, ifaces, proto_list, wait_list, cfg, ifa, thr>>

\* struct bfd_options a subscriber may pass: every interval and passive.
Options ==
  [min_rx_int : Intervals, min_tx_int : Intervals, idle_tx_int : {0, 1},
   multiplier : {0}, passive : BOOLEAN, passive_set : {TRUE}]

\* The options of a subscriber that sets nothing or asks for a longer RX
\* interval.
PlainOptions == {NoOptions, [NoOptions EXCEPT !.min_rx_int = MaxInterval]}

\* bfd_update_request(req, opts) with options that differ from the request's.
\* The sessions as a handler leaves them: its packets sent and its kick
\* written.
Settled(ss) == [sid \in DOMAIN ss |-> [ss[sid] EXCEPT !.kicked = FALSE, !.out = <<>>]]

\* The body of bfd_update_request on requests rq and sessions ss: what it
\* leaves of them, and how many times it called bfd_reconfigure_session.
\* Here without the comparison of the options.
bfd_update_request_body_always(rq, ss, r, opts) ==
  LET sid == rq[r].session
      nreqs == [rq EXCEPT ![r].opts = opts]
      head == Head(ss[sid].request_list)
  IN [reqs |-> nreqs,
      sess |-> [ss EXCEPT ![sid] = bfd_reconfigure_session(@, nreqs[head].opts)],
      reconfigured |-> 1]

bfd_update_request_body(rq, ss, r, opts) ==
  IF opts = rq[r].opts
  THEN [reqs |-> rq, sess |-> ss, reconfigured |-> 0]
  ELSE LET sid == rq[r].session
           nreqs == [rq EXCEPT ![r].opts = opts]
           head == Head(ss[sid].request_list)
       IN [reqs |-> nreqs,
           sess |-> [ss EXCEPT ![sid] = bfd_reconfigure_session(@, nreqs[head].opts)],
           reconfigured |-> 1]

\* A call with the options the request has returns at once and is no step.
bfd_update_request(r, opts) ==
  LET sid == reqs[r].session
      done == bfd_update_request_body(reqs, sess, r, opts)
  IN /\ opts # reqs[r].opts
     /\ reqs' = done.reqs
     /\ Commit(sid, done.sess[sid], FALSE)
     /\ UNCHANGED <<tmp_list, hist, silent, trace, ifaces, proto_list, wait_list, cfg, ifa, thr>>

\* bfd_notify_hook starts: the pipe is drained and the notify list is
\* spliced into the hook's tmp_list.
NotifyHook(p) ==
  /\ pipe[p]
  /\ tmp_list[p] = <<>>
  /\ pipe' = [pipe EXCEPT ![p] = FALSE]
  /\ tmp_list' = [tmp_list EXCEPT ![p] = notify_list[p]]
  /\ notify_list' = [notify_list EXCEPT ![p] = <<>>]
  /\ UNCHANGED <<sess, reqs, chan, hist, silent, trace, ifaces, proto_list, wait_list, cfg, ifa, thr>>

InList(r, l) == \E i \in 1 .. Len(l) : l[i] = r

\* What the requests hold after one round of the loop of bfd_notify_hook
\* has notified those of session s of the state it read.
NotifiedReqs(s) ==
  [r \in Requests |->
     IF InList(r, s.request_list)
     THEN bfd_request_notify(reqs[r], s.loc_state, s.rem_state, s.loc_diag)
     ELSE reqs[r]]

\* The deliveries of that round, added to what each request has been given.
NotifiedHist(s) ==
  [r \in Requests |->
     IF InList(r, s.request_list) /\ reqs[r].state # s.loc_state
     THEN Append(hist[r], <<s.loc_state, s.loc_diag>>)
     ELSE hist[r]]

\* One round of the loop of bfd_notify_hook: the first session of tmp_list
\* is unlinked, its state is read and its requests are notified.
NotifyDispatch(p) ==
  /\ tmp_list[p] # <<>>
  /\ LET sid == Head(tmp_list[p])
     IN /\ tmp_list' = [tmp_list EXCEPT ![p] = Tail(@)]
        /\ sess' = [sess EXCEPT ![sid].linked = FALSE]
        /\ reqs' = NotifiedReqs(sess[sid])
  /\ UNCHANGED <<notify_list, pipe, chan, hist, silent, trace, ifaces, proto_list, wait_list, cfg, ifa, thr>>

\* The peer stops transmitting for good.
PeerStops ==
  /\ ~silent
  /\ silent' = TRUE
  /\ UNCHANGED <<sess, reqs, notify_list, tmp_list, pipe, chan, hist, trace, ifaces, proto_list, wait_list, cfg, ifa, thr>>

(* --------------------------- specifications -------------------------- *)

\* One engine with one session, created by the request of a subscriber
\* with options opts.
InitOne(opts) ==
  /\ sess = [sid \in {1} |-> bfd_add_session(1, sid, opts, <<1>>)]
  /\ reqs = [r \in {1} |-> bfd_request_session(1, opts, sess[1])]
  /\ notify_list = [p \in {1} |-> <<>>]
  /\ tmp_list = [p \in {1} |-> <<>>]
  /\ pipe = [p \in {1} |-> FALSE]
  /\ chan = [sid \in {1} |-> <<>>]
  /\ hist = [r \in {1} |-> <<>>]
  /\ silent = FALSE
  /\ trace = [sid \in DOMAIN sess |-> <<>>]
  /\ ifaces = [p \in DOMAIN pipe |-> 1]
  /\ proto_list = <<1>>
  /\ wait_list = <<>>
  /\ cfg = [p \in DOMAIN pipe |-> AcceptAll]
  /\ ifa = [p \in DOMAIN pipe |-> [cf |-> bfd_default_iface, changed |-> FALSE]]
  /\ thr = <<>>

\* Spec: the session thread and the control thread of one engine, with a
\* peer that sends PlainPackets and may fall silent.
Init == \E opts \in PlainOptions : InitOne(opts)

RxPlain == \E sid \in Sessions : \E pkt \in PlainPackets(sess[sid].loc_id) : Rx(sid, pkt)
TxFire == \E sid \in Sessions : TxTimer(sid)
HoldFire == \E sid \in Sessions : HoldTimer(sid)
UpdatePlain == \E r \in Requests : \E opts \in PlainOptions : bfd_update_request(r, opts)
NotifyStart == \E p \in Engines : NotifyHook(p)
NotifyRound == \E p \in Engines : NotifyDispatch(p)

Next ==
  \/ RxPlain
  \/ TxFire
  \/ HoldFire
  \/ UpdatePlain
  \/ NotifyStart
  \/ NotifyRound
  \/ PeerStops

Spec == Init /\ [][Next]_vars

\* SpecEngine: the session-thread handlers and the control-thread critical
\* sections of one session under every packet of EnvPackets and every
\* reconfiguration of Options.  bfd_notify_hook only unlinks the session and
\* writes to requests, so the session's other fields take the same values
\* with it left out.
InitEngine == \E opts \in Options : InitOne(opts)

RxEnv == \E sid \in Sessions : \E pkt \in EnvPackets(sess[sid].loc_id) : Rx(sid, pkt)
UpdateAny == \E r \in Requests : \E opts \in Options : bfd_update_request(r, opts)

NextEngine ==
  \/ RxEnv
  \/ TxFire
  \/ HoldFire
  \/ UpdateAny

SpecEngine == InitEngine /\ [][NextEngine]_vars

\* SpecPoll: one session whose subscriber reconfigures both intervals over
\* 1 .. MaxPollInterval while a peer that never asks for demand mode answers
\* with any state and any Poll and Final flags.
PollOptions ==
  [min_rx_int : 1 .. MaxPollInterval, min_tx_int : 1 .. MaxPollInterval,
   idle_tx_int : {1}, multiplier : {0}, passive : {FALSE}, passive_set : {TRUE}]

PollPackets(id) ==
  [state : BfdStates, snd_id : PeerIds, rcv_id : {id},
   des_min_tx_int : {1}, req_min_rx_int : {1},
   detect_mult : Multipliers, demand : {FALSE}, poll : BOOLEAN, final : BOOLEAN]

InitPoll == \E opts \in PollOptions : InitOne(opts)

RxPoll == \E sid \in Sessions : \E pkt \in PollPackets(sess[sid].loc_id) : Rx(sid, pkt)
UpdatePoll == \E r \in Requests : \E opts \in PollOptions : bfd_update_request(r, opts)

NextPoll ==
  \/ RxPoll
  \/ TxFire
  \/ HoldFire
  \/ UpdatePoll

SpecPoll == InitPoll /\ [][NextPoll]_vars

\* SpecCtl: bfd_session_process_ctl on a session in any local state,
\* AdminDown included, under every packet of EnvPackets.
AnyStateSession(opts, state) ==
  [bfd_add_session(1, 1, opts, <<1>>) EXCEPT !.loc_state = state]

InitCtl ==
  /\ \E opts \in Options : \E state \in BfdStates :
       /\ sess = [sid \in {1} |-> AnyStateSession(opts, state)]
       /\ reqs = [r \in {1} |-> bfd_request_session(1, opts, sess[1])]
  /\ notify_list = [p \in {1} |-> <<>>]
  /\ tmp_list = [p \in {1} |-> <<>>]
  /\ pipe = [p \in {1} |-> FALSE]
  /\ chan = [sid \in {1} |-> <<>>]
  /\ hist = [r \in {1} |-> <<>>]
  /\ silent = FALSE
  /\ trace = [sid \in DOMAIN sess |-> <<>>]
  /\ ifaces = [p \in DOMAIN pipe |-> 1]
  /\ proto_list = <<1>>
  /\ wait_list = <<>>
  /\ cfg = [p \in DOMAIN pipe |-> AcceptAll]
  /\ ifa = [p \in DOMAIN pipe |-> [cf |-> bfd_default_iface, changed |-> FALSE]]
  /\ thr = <<>>

NextCtl == RxEnv

SpecCtl == InitCtl /\ [][NextCtl]_vars

\* SpecPair: two engines, each with one session to the other, exchanging
\* their control packets over a loopback pair that keeps their order.  No
\* detection timeout fires and nothing is reconfigured.
InitPair ==
  /\ \E o2 \in {NoOptions, [NoOptions EXCEPT !.passive = TRUE, !.passive_set = TRUE]} :
       LET opts == <<NoOptions, o2>>
       IN /\ sess = [sid \in {1, 2} |-> bfd_add_session(sid, sid, opts[sid], <<sid>>)]
          /\ reqs = [r \in {1, 2} |-> bfd_request_session(r, opts[r], sess[r])]
  /\ notify_list = [p \in {1, 2} |-> <<>>]
  /\ tmp_list = [p \in {1, 2} |-> <<>>]
  /\ pipe = [p \in {1, 2} |-> FALSE]
  /\ chan = [sid \in {1, 2} |-> <<>>]
  /\ hist = [r \in {1, 2} |-> <<<<reqs[r].state, reqs[r].diag>>>>]
  /\ silent = FALSE
  /\ trace = [sid \in DOMAIN sess |-> <<>>]
  /\ ifaces = [p \in DOMAIN pipe |-> 1]
  /\ proto_list = <<1>>
  /\ wait_list = <<>>
  /\ cfg = [p \in DOMAIN pipe |-> AcceptAll]
  /\ ifa = [p \in DOMAIN pipe |-> [cf |-> bfd_default_iface, changed |-> FALSE]]
  /\ thr = <<>>

\* The TX timer of a session fires and its packet leaves for the peer.
PairTx(sid) ==
  /\ sess[sid].tx_active
  /\ Len(chan[Peer(sid)]) < MaxQueue
  /\ Commit(sid, bfd_tx_timer_hook(sess[sid]), TRUE)
  /\ UNCHANGED <<reqs, tmp_list, hist, silent, trace, ifaces, proto_list, wait_list, cfg, ifa, thr>>

\* The next packet in flight to a session arrives: bfd_rx_hook drops it or
\* processes it, and a reply goes back to the peer.
PairRx(sid) ==
  /\ chan[sid] # <<>>
  /\ LET pkt == Head(chan[sid])
         t == IF bfd_rx_accepts(sess[sid], pkt)
              THEN bfd_rx_hook(sess[sid], pkt) ELSE sess[sid]
         p == t.bfd
         sent == IF Len(chan[Peer(sid)]) < MaxQueue THEN t.out ELSE <<>>
     IN /\ sess' = [sess EXCEPT ![sid] = [t EXCEPT !.kicked = FALSE, !.out = <<>>]]
        /\ notify_list' = IF t.linked /\ ~sess[sid].linked
                          THEN [notify_list EXCEPT ![p] = Append(@, sid)]
                          ELSE notify_list
        /\ pipe' = [pipe EXCEPT ![p] = @ \/ t.kicked]
        /\ chan' = [chan EXCEPT ![sid] = Tail(@), ![Peer(sid)] = @ \o sent]
  /\ UNCHANGED <<reqs, tmp_list, hist, silent, trace, ifaces, proto_list, wait_list, cfg, ifa, thr>>

\* One round of the loop of bfd_notify_hook, the subscriber logging what
\* its callback is given.
PairNotifyDispatch(p) ==
  /\ tmp_list[p] # <<>>
  /\ LET sid == Head(tmp_list[p])
     IN /\ tmp_list' = [tmp_list EXCEPT ![p] = Tail(@)]
        /\ sess' = [sess EXCEPT ![sid].linked = FALSE]
        /\ reqs' = NotifiedReqs(sess[sid])
        /\ hist' = NotifiedHist(sess[sid])
  /\ UNCHANGED <<notify_list, pipe, chan, silent, trace, ifaces, proto_list, wait_list, cfg, ifa, thr>>

PairTx1 == PairTx(1)
PairTx2 == PairTx(2)
PairRx1 == PairRx(1)
PairRx2 == PairRx(2)
PairNotifyRound == \E p \in Engines : PairNotifyDispatch(p)

NextPair ==
  \/ PairTx1
  \/ PairTx2
  \/ PairRx1
  \/ PairRx2
  \/ NotifyStart
  \/ PairNotifyRound

SpecPair == InitPair /\ [][NextPair]_vars

\* SpecNotify: one session with one subscriber, the session thread noting
\* in trace each state change (loc_state, loc_diag and the rem_state it was
\* made with) and the subscriber noting in hist what its callback is given.
NotePackets(id) ==
  [state : BfdStates, snd_id : PeerIds, rcv_id : {id},
   des_min_tx_int : {1}, req_min_rx_int : {1},
   detect_mult : Multipliers, demand : {FALSE}, poll : {FALSE}, final : {FALSE}]

InitNotify == InitOne(NoOptions)

\* trace after a handler has left session sid as t.
Noted(sid, t) ==
  IF t.loc_state # sess[sid].loc_state
  THEN [trace EXCEPT ![sid] = Append(@, <<t.loc_state, t.loc_diag, t.rem_state>>)]
  ELSE trace

RxNoted(sid, pkt) ==
  /\ Len(trace[sid]) < MaxTrace
  /\ bfd_rx_accepts(sess[sid], pkt)
  /\ Commit(sid, bfd_rx_hook(sess[sid], pkt), FALSE)
  /\ trace' = Noted(sid, bfd_rx_hook(sess[sid], pkt))
  /\ UNCHANGED <<reqs, tmp_list, hist, silent, ifaces, proto_list, wait_list, cfg, ifa, thr>>

HoldNoted(sid) ==
  /\ Len(trace[sid]) < MaxTrace
  /\ sess[sid].hold_active
  /\ Commit(sid, bfd_hold_timer_hook(sess[sid]), FALSE)
  /\ trace' = Noted(sid, bfd_hold_timer_hook(sess[sid]))
  /\ UNCHANGED <<reqs, tmp_list, hist, silent, ifaces, proto_list, wait_list, cfg, ifa, thr>>

RxNote == \E sid \in Sessions : \E pkt \in NotePackets(sess[sid].loc_id) : RxNoted(sid, pkt)
HoldNote == \E sid \in Sessions : HoldNoted(sid)

NextNotify ==
  \/ RxNote
  \/ HoldNote
  \/ NotifyStart
  \/ PairNotifyRound

SpecNotify == InitNotify /\ [][NextNotify]_vars

\* SpecReply: one session and the queue of what it has sent to its peer,
\* chan[Peer(1)], which the peer empties one packet at a time.
InitReply ==
  /\ \E opts \in PlainOptions :
       /\ sess = [sid \in {1} |-> bfd_add_session(1, sid, opts, <<1>>)]
       /\ reqs = [r \in {1} |-> bfd_request_session(1, opts, sess[1])]
  /\ notify_list = [p \in {1} |-> <<>>]
  /\ tmp_list = [p \in {1} |-> <<>>]
  /\ pipe = [p \in {1} |-> FALSE]
  /\ chan = [e \in {1, Peer(1)} |-> <<>>]
  /\ hist = [r \in {1} |-> <<>>]
  /\ silent = FALSE
  /\ trace = [sid \in DOMAIN sess |-> <<>>]
  /\ ifaces = [p \in DOMAIN pipe |-> 1]
  /\ proto_list = <<1>>
  /\ wait_list = <<>>
  /\ cfg = [p \in DOMAIN pipe |-> AcceptAll]
  /\ ifa = [p \in DOMAIN pipe |-> [cf |-> bfd_default_iface, changed |-> FALSE]]
  /\ thr = <<>>

\* A control packet arrives, passes validation and is processed; what the
\* handler sends goes to the peer.
RxSend(sid, pkt) ==
  /\ Len(chan[Peer(sid)]) < MaxQueue
  /\ bfd_rx_accepts(sess[sid], pkt)
  /\ Commit(sid, bfd_rx_hook(sess[sid], pkt), TRUE)
  /\ UNCHANGED <<reqs, tmp_list, hist, silent, trace, ifaces, proto_list, wait_list, cfg, ifa, thr>>

RxReply == \E sid \in Sessions : \E pkt \in PollPackets(sess[sid].loc_id) : RxSend(sid, pkt)
TxReply == \E sid \in Sessions : PairTx(sid)

\* The peer takes the next packet sent to it.
PeerTakes ==
  /\ chan[Peer(1)] # <<>>
  /\ chan' = [chan EXCEPT ![Peer(1)] = Tail(@)]
  /\ UNCHANGED <<sess, reqs, notify_list, tmp_list, pipe, hist, silent, trace, ifaces, proto_list, wait_list, cfg, ifa, thr>>

NextReply ==
  \/ RxReply
  \/ TxReply
  \/ HoldFire
  \/ UpdatePlain
  \/ PeerTakes

SpecReply == InitReply /\ [][NextReply]_vars

(* ---- SpecReg: requests come and go, sessions are added and removed ---- *)

Addrs == 1..MaxAddrs

\* The loop of bfd_notify_hook over the requests of session sid, which it
\* walks with the next node saved before each callback: ws collects the
\* registry after each request, st is the state the hook read under the
\* lock, and the requests in F release themselves inside their callback.
RECURSIVE bfd_notify_walk(_, _, _, _, _)
bfd_notify_walk(ws, sid, st, rest, F) ==
  IF rest = <<>> THEN ws
  ELSE LET w == ws[Len(ws)]
           r == Head(rest)
           called == w.reqs[r].hook /\ w.reqs[r].state # st.loc_state
           n == [w EXCEPT !.reqs[r] = bfd_request_notify(@, st.loc_state,
                                                         st.rem_state, st.loc_diag)]
           f == IF called /\ r \in F THEN bfd_request_free(n, r) ELSE n
       IN bfd_notify_walk(Append(ws, f), sid, st, Tail(rest), F)

\* The registries bfd_notify_hook goes through for the first session of
\* tmp_list: unlinked and marked notify_running, after each request, and
\* at the end of the round.
bfd_notify_round(w, p, F) ==
  LET sid == Head(w.tmp_list[p])
      st == w.sess[sid]
      b == [w EXCEPT !.tmp_list[p] = Tail(@),
                     !.sess[sid].linked = FALSE,
                     !.sess[sid].notify_running = TRUE]
      ws == bfd_notify_walk(<<b>>, sid, st, st.request_list, F)
      u == ws[Len(ws)]
      e == IF sid \in DOMAIN u.sess
           THEN [u EXCEPT !.sess[sid].notify_running = FALSE]
           ELSE u
  IN Append(ws, IF sid \in DOMAIN e.sess /\ e.sess[sid].request_list = <<>>
                THEN bfd_remove_session(e, sid)
                ELSE e)

Last(ws) == ws[Len(ws)]

\* The requests of the first session of tmp_list whose callback the round
\* is going to call.
Called(w, p) ==
  LET s == w.sess[Head(w.tmp_list[p])]
  IN {r \in DOMAIN w.reqs : /\ w.reqs[r].session = Head(w.tmp_list[p])
                            /\ w.reqs[r].hook
                            /\ w.reqs[r].state # s.loc_state}

\* The loop WALK_LIST_DELSAFE(n, nn, s->request_list) of bfd_notify_hook
\* over list l, standing at n (0: the end), when the hook of request r
\* releases the requests rel[r]: the requests visited, each with whether
\* it was on the list when the loop came to it. nn is taken before the
\* hook of n runs; behind a released request nothing more is known.
RECURSIVE bfd_notify_visits(_, _, _, _)
bfd_notify_visits(l, n, rel, seen) ==
  IF n = 0 THEN seen
  ELSE IF ~InList(n, l) THEN Append(seen, <<n, FALSE>>)
  ELSE LET i == CHOOSE j \in 1 .. Len(l) : l[j] = n
           nn == IF i < Len(l) THEN l[i + 1] ELSE 0
           after == IF n \in DOMAIN rel
                    THEN SelectSeq(l, LAMBDA x : x \notin rel[n])
                    ELSE l
       IN bfd_notify_visits(after, nn, rel, Append(seen, <<n, TRUE>>))

SetWorld(w) ==
  /\ sess' = w.sess
  /\ reqs' = w.reqs
  /\ notify_list' = w.notify_list
  /\ tmp_list' = w.tmp_list
  /\ ifaces' = w.ifaces

\* The packets of SpecReg: the neighbour is Down or Up and knows our id.
RegPackets(id) ==
  [state : {BFD_STATE_DOWN, BFD_STATE_UP}, snd_id : PeerIds, rcv_id : {id},
   des_min_tx_int : {1}, req_min_rx_int : {1},
   detect_mult : Multipliers, demand : {FALSE}, poll : {FALSE}, final : {FALSE}]

InitReg ==
  /\ sess = <<>>
  /\ reqs = <<>>
  /\ notify_list = [p \in {1} |-> <<>>]
  /\ tmp_list = [p \in {1} |-> <<>>]
  /\ pipe = [p \in {1} |-> FALSE]
  /\ chan = <<>>
  /\ hist = <<>>
  /\ silent = FALSE
  /\ trace = <<>>
  /\ ifaces = [p \in {1} |-> 0]
  /\ proto_list = <<1>>
  /\ wait_list = <<>>
  /\ cfg = [p \in DOMAIN pipe |-> AcceptAll]
  /\ ifa = [p \in DOMAIN pipe |-> [cf |-> bfd_default_iface, changed |-> FALSE]]
  /\ thr = <<>>

FreeRequest == CHOOSE r \in 1..MaxRequests : r \notin Requests /\ \A q \in 1..(r - 1) : q \in Requests

RegAdd(a, start) ==
  /\ Cardinality(Requests) < MaxRequests
  /\ Cardinality(Sessions) < IdMod - 1
  /\ SetWorld(bfd_add_request(World, 1, FreeRequest, a, NoOptions, start))
  /\ UNCHANGED <<pipe, chan, hist, silent, trace, proto_list, wait_list, cfg, ifa, thr>>

RegFree(r) ==
  /\ SetWorld(bfd_request_free(World, r))
  /\ UNCHANGED <<pipe, chan, hist, silent, trace, proto_list, wait_list, cfg, ifa, thr>>

\* hist keeps, of the last round, what the callbacks of the requests that
\* released themselves were given.
RegDispatch(p, F) ==
  /\ tmp_list[p] # <<>>
  /\ SetWorld(Last(bfd_notify_round(World, p, F)))
  /\ hist' = [r \in F |-> <<<<sess[Head(tmp_list[p])].loc_state,
                               sess[Head(tmp_list[p])].loc_diag>>>>]
  /\ UNCHANGED <<pipe, chan, silent, trace, proto_list, wait_list, cfg, ifa, thr>>

RegRequest == \E a \in Addrs : \E start \in 0..(IdMod - 1) : RegAdd(a, start)
RegRelease == \E r \in Requests : RegFree(r)
RegRx == \E sid \in Sessions : \E pkt \in RegPackets(sess[sid].loc_id) : Rx(sid, pkt)
RegNotifyRound ==
  \E p \in Engines :
    /\ tmp_list[p] # <<>>
    /\ \E F \in SUBSET Called(World, p) : RegDispatch(p, F)

NextReg ==
  \/ RegRequest
  \/ RegRelease
  \/ RegRx
  \/ NotifyStart
  \/ RegNotifyRound

SpecReg == InitReg /\ [][NextReg]_vars

(* --- SpecSubmit: engines start and stop, requests are (re)submitted --- *)

\* Engines of the process, VRFs, and the neighbours requests are made for:
\* address 4 is an IPv4 address and address 6 an IPv6 address; iface is
\* the index of the interface of a direct request and 0 for a multihop one.
Protos == 1..MaxProtos
Vrfs == 1..2
ReqAddrs == {4, 6}
ReqIfaces == {0, 1}
ipa_is_ip4(a) == a = 4

\* session = NULL
NULL == <<>>

\* The configurations an engine is started with: it accepts every request,
\* or is bound to VRF 1, or refuses one address family or one mode.
Configs ==
  {AcceptAll,
   [AcceptAll EXCEPT !.vrf_set = TRUE, !.vrf = 1],
   [AcceptAll EXCEPT !.accept_ipv4 = FALSE],
   [AcceptAll EXCEPT !.accept_ipv6 = FALSE],
   [AcceptAll EXCEPT !.accept_direct = FALSE],
   [AcceptAll EXCEPT !.accept_multihop = FALSE]}

\* The registry of the process: World with the list of engines, the wait
\* list, the engines' configurations, and the callbacks the running
\* operation has invoked so far, as <<request, state, diag, down>>.
Process ==
  [sess |-> sess, reqs |-> reqs, notify_list |-> notify_list,
   tmp_list |-> tmp_list, ifaces |-> ifaces, pipe |-> pipe,
   proto_list |-> proto_list, wait_list |-> wait_list, cfg |-> cfg,
   called |-> <<>>]

\* bfd_request_notify on request r of the registry, with its call of
\* req->hook.
RequestNotify(w, r, state, remote, diag) ==
  LET n == bfd_request_notify(w.reqs[r], state, remote, diag)
  IN [w EXCEPT !.reqs[r] = n,
               !.called = IF w.reqs[r].hook /\ state # w.reqs[r].state
                          THEN Append(@, <<r, n.state, n.diag, n.down>>)
                          ELSE @]

\* rem_node left out: the request stays on the list it was on.
RemNode_keeps_linked(w, r) == w

\* rem_node(&req->n): the request leaves the list it is on, the request
\* list of its session or the wait list.
RemNode(w, r) ==
  LET sid == w.reqs[r].session
  IN IF sid # NULL
     THEN [w EXCEPT !.sess[sid].request_list = Unlinked(@, r)]
     ELSE [w EXCEPT !.wait_list = Unlinked(@, r)]

\* The three tests at the head of bfd_add_request.
Accepts(c, req) ==
  /\ ~(c.vrf_set /\ c.vrf # req.vrf)
  /\ IF ipa_is_ip4(req.addr) THEN c.accept_ipv4 ELSE c.accept_ipv6
  /\ IF req.iface # 0 THEN c.accept_direct ELSE c.accept_multihop

\* The rest of bfd_add_request, for a request engine p accepts: the session
\* is found by address and interface or added, the request moves to the
\* tail of its list and is notified of its state.
Attach(w, p, r, start) ==
  LET req == w.reqs[r]
      sid == <<p, req.addr, req.iface>>
      ids == {w.sess[b].loc_id : b \in {c \in DOMAIN w.sess : w.sess[c].bfd = p}}
      u == IF sid \in DOMAIN w.sess THEN w
           ELSE [bfd_get_iface(w, p) EXCEPT
                   !.sess = With(@, sid, bfd_add_session(p, bfd_get_free_id(ids, start),
                                                         req.opts, <<>>))]
      v == [RemNode(u, r) EXCEPT !.sess[sid].request_list = Append(@, r),
                                 !.reqs[r].session = sid]
  IN RequestNotify(v, r, v.sess[sid].loc_state, v.sess[sid].rem_state,
                   v.sess[sid].loc_diag)

AcceptingProtos(w, r) ==
  {i \in 1 .. Len(w.proto_list) : Accepts(w.cfg[w.proto_list[i]], w.reqs[r])}

\* bfd_submit_request that attaches to the last engine that accepts.
bfd_submit_request_last(w, r, start) ==
  LET acc == AcceptingProtos(w, r)
  IN IF acc # {}
     THEN Attach(w, w.proto_list[CHOOSE i \in acc : \A j \in acc : i >= j], r, start)
     ELSE RequestNotify([RemNode(w, r) EXCEPT !.wait_list = Append(@, r),
                                              !.reqs[r].session = NULL],
                        r, BFD_STATE_ADMIN_DOWN, BFD_STATE_ADMIN_DOWN, BFD_DIAG_NOTHING)

bfd_submit_request(w, r, start) ==
  LET acc == AcceptingProtos(w, r)
  IN IF acc # {}
     THEN Attach(w, w.proto_list[CHOOSE i \in acc : \A j \in acc : i <= j], r, start)
     ELSE RequestNotify([RemNode(w, r) EXCEPT !.wait_list = Append(@, r),
                                              !.reqs[r].session = NULL],
                        r, BFD_STATE_ADMIN_DOWN, BFD_STATE_ADMIN_DOWN, BFD_DIAG_NOTHING)

\* bfd_take_requests: engine p is offered the requests of the wait list l.
RECURSIVE bfd_take_requests(_, _, _, _)
bfd_take_requests(w, p, l, start) ==
  IF l = <<>> THEN w
  ELSE bfd_take_requests(IF Accepts(w.cfg[p], w.reqs[Head(l)])
                         THEN Attach(w, p, Head(l), start)
                         ELSE w,
                         p, Tail(l), start)

\* The sessions of engine p in the order HASH_WALK(session_hash_id) takes
\* them, by loc_id.
RECURSIVE Sorted(_, _)
Sorted(w, S) ==
  IF S = {} THEN <<>>
  ELSE LET m == CHOOSE a \in S : \A b \in S : w.sess[a].loc_id <= w.sess[b].loc_id
       IN <<m>> \o Sorted(w, S \ {m})

\* bfd_drop_requests: the requests in l are submitted again one by one.
RECURSIVE SubmitAll(_, _, _)
SubmitAll(w, l, start) ==
  IF l = <<>> THEN w
  ELSE SubmitAll(bfd_submit_request(w, Head(l), start), Tail(l), start)

RECURSIVE DropSessions(_, _, _)
DropSessions(w, ss, start) ==
  IF ss = <<>> THEN w
  ELSE DropSessions(SubmitAll(w, w.sess[Head(ss)].request_list, start), Tail(ss), start)

bfd_drop_requests(w, p, start) ==
  DropSessions(w, Sorted(w, {a \in DOMAIN w.sess : w.sess[a].bfd = p}), start)

\* bfd_request_session that sets the hook before it submits the request.
RequestSession_hook_first(w, r, a, i, v, opts, start) ==
  LET req == [session |-> NULL, opts |-> opts,
              state |-> BFD_STATE_ADMIN_DOWN, diag |-> BFD_DIAG_NOTHING,
              old_state |-> BFD_STATE_ADMIN_DOWN, down |-> FALSE,
              hook |-> TRUE, addr |-> a, iface |-> i, vrf |-> v]
  IN bfd_submit_request([w EXCEPT !.reqs = With(@, r, req)], r, start)

\* bfd_request_session: the request is allocated zeroed, submitted, and
\* only then given its hook.
RequestSession(w, r, a, i, v, opts, start) ==
  LET req == [session |-> NULL, opts |-> opts,
              state |-> BFD_STATE_ADMIN_DOWN, diag |-> BFD_DIAG_NOTHING,
              old_state |-> BFD_STATE_ADMIN_DOWN, down |-> FALSE,
              hook |-> FALSE, addr |-> a, iface |-> i, vrf |-> v]
      u == bfd_submit_request([w EXCEPT !.reqs = With(@, r, req)], r, start)
  IN [u EXCEPT !.reqs[r].hook = TRUE]

\* bfd_start of engine p with configuration c.
bfd_start(w, p, c, start) ==
  LET u == [w EXCEPT !.cfg[p] = c, !.proto_list = Append(@, p)]
  IN bfd_take_requests(u, p, u.wait_list, start)

\* bfd_shutdown that drops the requests before engine p leaves the list.
bfd_shutdown_stays_listed(w, p, start) ==
  LET u == [bfd_drop_requests(w, p, start) EXCEPT !.proto_list = Unlinked(@, p)]
  IN [u EXCEPT !.sess = [a \in {b \in DOMAIN @ : @[b].bfd # p} |-> @[a]],
               !.notify_list[p] = <<>>,
               !.tmp_list[p] = <<>>,
               !.pipe[p] = FALSE,
               !.ifaces[p] = 0]

\* bfd_shutdown of engine p: it leaves the list, its loop stops, its
\* requests are dropped, and its sessions go with its pools.
bfd_shutdown(w, p, start) ==
  LET u == bfd_drop_requests([w EXCEPT !.proto_list = Unlinked(@, p)], p, start)
  IN [u EXCEPT !.sess = [a \in {b \in DOMAIN @ : @[b].bfd # p} |-> @[a]],
               !.notify_list[p] = <<>>,
               !.tmp_list[p] = <<>>,
               !.pipe[p] = FALSE,
               !.ifaces[p] = 0]

\* bfd_request_free of a request that may be on the wait list.
RequestFree(w, r) ==
  IF w.reqs[r].session = NULL
  THEN [w EXCEPT !.reqs = Without(@, r), !.wait_list = Unlinked(@, r)]
  ELSE bfd_request_free(w, r)

\* bfd_notify_hook of engine p as the main thread runs it, from the drain
\* of the pipe to the last session of tmp_list.
RECURSIVE NotifyRounds(_, _)
NotifyRounds(w, p) ==
  IF w.tmp_list[p] = <<>> THEN w
  ELSE NotifyRounds(Last(bfd_notify_round(w, p, {})), p)

NotifyAll(w, p) ==
  NotifyRounds([w EXCEPT !.pipe[p] = FALSE,
                         !.tmp_list[p] = w.notify_list[p],
                         !.notify_list[p] = <<>>], p)

SetProcess(w) ==
  /\ SetWorld(w)
  /\ pipe' = w.pipe
  /\ proto_list' = w.proto_list
  /\ wait_list' = w.wait_list
  /\ cfg' = w.cfg
  /\ hist' = w.called

InitSubmit ==
  /\ sess = <<>>
  /\ reqs = <<>>
  /\ notify_list = [p \in Protos |-> <<>>]
  /\ tmp_list = [p \in Protos |-> <<>>]
  /\ pipe = [p \in Protos |-> FALSE]
  /\ chan = <<>>
  /\ hist = <<>>
  /\ silent = FALSE
  /\ trace = <<>>
  /\ ifaces = [p \in Protos |-> 0]
  /\ proto_list = <<>>
  /\ wait_list = <<>>
  /\ cfg = [p \in Protos |-> AcceptAll]
  /\ ifa = [p \in Protos |-> [cf |-> bfd_default_iface, changed |-> FALSE]]
  /\ thr = <<>>

SubStart(p, c, start) ==
  /\ ~InList(p, proto_list)
  /\ SetProcess(bfd_start(Process, p, c, start))
  /\ UNCHANGED <<chan, silent, trace, ifa, thr>>

SubShutdown(p, start) ==
  /\ InList(p, proto_list)
  /\ SetProcess(bfd_shutdown(Process, p, start))
  /\ UNCHANGED <<chan, silent, trace, ifa, thr>>

SubRequest(a, i, v, start) ==
  /\ Cardinality(Requests) < MaxRequests
  /\ SetProcess(RequestSession(Process, FreeRequest, a, i, v, NoOptions, start))
  /\ UNCHANGED <<chan, silent, trace, ifa, thr>>

SubFree(r) ==
  /\ SetProcess(RequestFree(Process, r))
  /\ UNCHANGED <<chan, silent, trace, ifa, thr>>

SubNotify(p) ==
  /\ pipe[p]
  /\ SetProcess(NotifyAll(Process, p))
  /\ UNCHANGED <<chan, silent, trace, ifa, thr>>

Starts == \E p \in Protos : \E c \in Configs : \E start \in 0..(IdMod - 1) : SubStart(p, c, start)
Stops == \E p \in Protos : \E start \in 0..(IdMod - 1) : SubShutdown(p, start)
Submits ==
  \E a \in ReqAddrs : \E i \in ReqIfaces : \E v \in Vrfs : \E start \in 0..(IdMod - 1) :
    SubRequest(a, i, v, start)
Releases == \E r \in Requests : SubFree(r)
SubRx == \E sid \in Sessions : \E pkt \in RegPackets(sess[sid].loc_id) : Rx(sid, pkt)
Notifies == \E p \in Protos : SubNotify(p)

\* SpecSubmit: every configuration of Configs and every kind of request;
\* the sessions stay as bfd_add_session made them.
NextSubmit ==
  \/ Starts
  \/ Stops
  \/ Submits
  \/ Releases

SpecSubmit == InitSubmit /\ [][NextSubmit]_vars

\* SpecHandover: direct IPv4 requests in VRF 1 and engines that accept
\* them or refuse IPv4, with the sessions going Up and Down and the
\* requests told so.
StartsFew ==
  \E p \in Protos : \E c \in {AcceptAll, [AcceptAll EXCEPT !.accept_ipv4 = FALSE]} :
    \E start \in 0..(IdMod - 1) : SubStart(p, c, start)
SubmitsFew == \E start \in 0..(IdMod - 1) : SubRequest(4, 1, 1, start)

NextHandover ==
  \/ StartsFew
  \/ Stops
  \/ SubmitsFew
  \/ Releases
  \/ SubRx
  \/ Notifies

SpecHandover == InitSubmit /\ [][NextHandover]_vars

(* ------- SpecConf: the engine is given new configurations ------------ *)

\* The interface configurations bfd_find_iface_config finds in a new
\* configuration, and the new configurations: conf holds the fields of
\* struct bfd_config, iface the configuration found for the interface.
IfaceConfigs ==
  {bfd_default_iface,
   [bfd_default_iface EXCEPT !.min_rx_int = MaxInterval],
   [bfd_default_iface EXCEPT !.passive = TRUE]}

NewConfigs ==
  [conf : [vrf_set : {FALSE}, vrf : {0},
           accept_ipv4 : BOOLEAN, accept_ipv6 : BOOLEAN,
           accept_direct : BOOLEAN, accept_multihop : BOOLEAN,
           strict_bind : BOOLEAN, zero_udp6_checksum_rx : BOOLEAN],
   iface : IfaceConfigs]

\* The configurations the engine of SpecConf is started with.
StartConfigs ==
  {AcceptAll,
   [AcceptAll EXCEPT !.accept_ipv6 = FALSE, !.strict_bind = TRUE],
   [AcceptAll EXCEPT !.accept_direct = FALSE, !.zero_udp6_checksum_rx = TRUE]}

\* What bfd_reconfigure reads and writes.
Conf == [sess |-> sess, reqs |-> reqs, ifa |-> ifa, cfg |-> cfg]

\* bfd_reconfigure_iface: changed is set by comparing the configurations,
\* and the interface points to the new one.
bfd_reconfigure_iface(i, new) ==
  [cf |-> new,
   changed |-> \/ new.min_rx_int # i.cf.min_rx_int
               \/ new.min_tx_int # i.cf.min_tx_int
               \/ new.idle_tx_int # i.cf.idle_tx_int
               \/ new.multiplier # i.cf.multiplier
               \/ new.passive # i.cf.passive]

\* bfd_reconfigure_session of a session whose interface has configuration
\* ic (s->ifa->cf).
bfd_reconfigure_session_ifa(s, ic, head_opts) ==
  IF s.request_list = <<>> THEN s
  ELSE LET a == [s EXCEPT !.cf = bfd_merge_options(ic, head_opts)]
           tx == IF a.loc_state = BFD_STATE_UP
                 THEN a.cf.min_tx_int ELSE a.cf.idle_tx_int
           b == bfd_session_set_min_tx(a, tx)
           c == bfd_session_set_min_rx(b, b.cf.min_rx_int)
           d == [c EXCEPT !.detect_mult = c.cf.multiplier, !.passive = c.cf.passive]
       IN bfd_session_control_tx_timer(d, FALSE)

\* The test at the head of bfd_reconfigure.
Reconfigurable(new, old) ==
  /\ new.accept_ipv4 = old.accept_ipv4
  /\ new.accept_ipv6 = old.accept_ipv6
  /\ new.accept_direct = old.accept_direct
  /\ new.accept_multihop = old.accept_multihop
  /\ new.strict_bind = old.strict_bind
  /\ new.zero_udp6_checksum_rx = old.zero_udp6_checksum_rx

\* bfd_reconfigure that does not compare zero_udp6_checksum_rx.
bfd_reconfigure_ignores_checksum(c, p, new) ==
  IF \/ new.conf.accept_ipv4 # c.cfg[p].accept_ipv4
     \/ new.conf.accept_ipv6 # c.cfg[p].accept_ipv6
     \/ new.conf.accept_direct # c.cfg[p].accept_direct
     \/ new.conf.accept_multihop # c.cfg[p].accept_multihop
     \/ new.conf.strict_bind # c.cfg[p].strict_bind
  THEN [ret |-> 0, sess |-> c.sess, reqs |-> c.reqs, ifa |-> c.ifa, cfg |-> c.cfg]
  ELSE LET i == bfd_reconfigure_iface(c.ifa[p], new.iface)
       IN [ret |-> 1,
           sess |-> [sid \in DOMAIN c.sess |->
                       IF c.sess[sid].bfd = p /\ i.changed
                       THEN bfd_reconfigure_session_ifa(
                              c.sess[sid], i.cf,
                              c.reqs[Head(c.sess[sid].request_list)].opts)
                       ELSE c.sess[sid]],
           reqs |-> c.reqs,
           ifa |-> [c.ifa EXCEPT ![p] = i],
           cfg |-> [c.cfg EXCEPT ![p] = new.conf]]

\* bfd_reconfigure of engine p, which has one interface and no neighbors
\* configured: the value it returns and what it leaves.  A configuration
\* it accepts becomes the engine's.
bfd_reconfigure(c, p, new) ==
  IF ~Reconfigurable(new.conf, c.cfg[p])
  THEN [ret |-> 0, sess |-> c.sess, reqs |-> c.reqs, ifa |-> c.ifa, cfg |-> c.cfg]
  ELSE LET i == bfd_reconfigure_iface(c.ifa[p], new.iface)
       IN [ret |-> 1,
           sess |-> [sid \in DOMAIN c.sess |->
                       IF c.sess[sid].bfd = p /\ i.changed
                       THEN bfd_reconfigure_session_ifa(
                              c.sess[sid], i.cf,
                              c.reqs[Head(c.sess[sid].request_list)].opts)
                       ELSE c.sess[sid]],
           reqs |-> c.reqs,
           ifa |-> [c.ifa EXCEPT ![p] = i],
           cfg |-> [c.cfg EXCEPT ![p] = new.conf]]

\* hist keeps the value the last bfd_reconfigure returned.
InitConf ==
  /\ sess = [sid \in {1} |-> bfd_add_session(1, sid, NoOptions, <<1>>)]
  /\ reqs = [r \in {1} |-> bfd_request_session(1, NoOptions, sess[1])]
  /\ notify_list = [p \in {1} |-> <<>>]
  /\ tmp_list = [p \in {1} |-> <<>>]
  /\ pipe = [p \in {1} |-> FALSE]
  /\ chan = [sid \in {1} |-> <<>>]
  /\ hist = <<>>
  /\ silent = FALSE
  /\ trace = <<>>
  /\ ifaces = [p \in {1} |-> 1]
  /\ proto_list = <<1>>
  /\ wait_list = <<>>
  /\ \E c \in StartConfigs : cfg = [p \in {1} |-> c]
  /\ ifa = [p \in {1} |-> [cf |-> bfd_default_iface, changed |-> FALSE]]
  /\ thr = <<>>

ConfReconfigure(p, new) ==
  LET done == bfd_reconfigure(Conf, p, new)
  IN /\ sess' = Settled(done.sess)
     /\ reqs' = done.reqs
     /\ ifa' = done.ifa
     /\ cfg' = done.cfg
     /\ hist' = <<done.ret>>
     /\ UNCHANGED <<notify_list, tmp_list, pipe, chan, silent, trace, ifaces,
                    proto_list, wait_list, thr>>

Reconfigures == \E p \in Engines : \E new \in NewConfigs : ConfReconfigure(p, new)

NextConf ==
  \/ Reconfigures
  \/ RegRx
  \/ TxFire
  \/ HoldFire

SpecConf == InitConf /\ [][NextConf]_vars

(* -- SpecKick: the kick and the notify hook, one step at a time ------- *)

\* bfd_session_update_state links the session under the spinlock and
\* calls bfd_notify_kick at its end; bfd_notify_hook drains the pipe and
\* then splices the notify list.  thr.kick is the engine whose pipe the
\* session thread is about to write to (0: none), thr.hook says that
\* bfd_notify_hook has drained the pipe and not yet taken the list.

\* bfd_notify_kick that writes nothing.
bfd_notify_kick_lost(pp, p) == pp

bfd_notify_kick(pp, p) == [pp EXCEPT ![p] = TRUE]

InitKick ==
  /\ sess = [sid \in {1} |-> bfd_add_session(1, sid, NoOptions, <<1>>)]
  /\ reqs = [r \in {1} |-> bfd_request_session(1, NoOptions, sess[1])]
  /\ notify_list = [p \in {1} |-> <<>>]
  /\ tmp_list = [p \in {1} |-> <<>>]
  /\ pipe = [p \in {1} |-> FALSE]
  /\ chan = [sid \in {1} |-> <<>>]
  /\ hist = [r \in {1} |-> <<>>]
  /\ silent = FALSE
  /\ trace = [sid \in DOMAIN sess |-> <<>>]
  /\ ifaces = [p \in DOMAIN pipe |-> 1]
  /\ proto_list = <<1>>
  /\ wait_list = <<>>
  /\ cfg = [p \in DOMAIN pipe |-> AcceptAll]
  /\ ifa = [p \in DOMAIN pipe |-> [cf |-> bfd_default_iface, changed |-> FALSE]]
  /\ thr = [kick |-> 0, hook |-> FALSE]

\* A handler of the session thread up to its bfd_notify_kick: t is the
\* session as the handler leaves it.
Handled(sid, t) ==
  /\ thr.kick = 0
  /\ sess' = [sess EXCEPT ![sid] = [t EXCEPT !.kicked = FALSE, !.out = <<>>]]
  /\ notify_list' = IF t.linked /\ ~sess[sid].linked
                    THEN [notify_list EXCEPT ![t.bfd] = Append(@, sid)]
                    ELSE notify_list
  /\ thr' = [thr EXCEPT !.kick = IF t.kicked THEN t.bfd ELSE 0]
  /\ UNCHANGED <<reqs, tmp_list, pipe, chan, hist, silent, trace, ifaces,
                 proto_list, wait_list, cfg, ifa>>

KickRx(sid, pkt) ==
  /\ ~silent
  /\ bfd_rx_accepts(sess[sid], pkt)
  /\ Handled(sid, bfd_rx_hook(sess[sid], pkt))

KickHold(sid) ==
  /\ sess[sid].hold_active
  /\ Handled(sid, bfd_hold_timer_hook(sess[sid]))

KickWrite ==
  /\ thr.kick # 0
  /\ pipe' = bfd_notify_kick(pipe, thr.kick)
  /\ thr' = [thr EXCEPT !.kick = 0]
  /\ UNCHANGED <<sess, reqs, notify_list, tmp_list, chan, hist, silent, trace, ifaces,
                 proto_list, wait_list, cfg, ifa>>

HookDrain(p) ==
  /\ pipe[p]
  /\ ~thr.hook
  /\ tmp_list[p] = <<>>
  /\ pipe' = [pipe EXCEPT ![p] = FALSE]
  /\ thr' = [thr EXCEPT !.hook = TRUE]
  /\ UNCHANGED <<sess, reqs, notify_list, tmp_list, chan, hist, silent, trace, ifaces,
                 proto_list, wait_list, cfg, ifa>>

HookSplice(p) ==
  /\ thr.hook
  /\ tmp_list' = [tmp_list EXCEPT ![p] = notify_list[p]]
  /\ notify_list' = [notify_list EXCEPT ![p] = <<>>]
  /\ thr' = [thr EXCEPT !.hook = FALSE]
  /\ UNCHANGED <<sess, reqs, pipe, chan, hist, silent, trace, ifaces,
                 proto_list, wait_list, cfg, ifa>>

KickRxAny == \E sid \in Sessions : \E pkt \in NotePackets(sess[sid].loc_id) : KickRx(sid, pkt)
KickHoldAny == \E sid \in Sessions : KickHold(sid)
HookDrains == \E p \in Engines : HookDrain(p)
HookSplices == \E p \in Engines : HookSplice(p)

NextKick ==
  \/ KickRxAny
  \/ KickHoldAny
  \/ KickWrite
  \/ HookDrains
  \/ HookSplices
  \/ NotifyRound
  \/ PeerStops

SpecKick == InitKick /\ [][NextKick]_vars

\* The session thread gets to its bfd_notify_kick and its hold timer
\* fires once armed; the main loop runs bfd_notify_hook when the pipe is
\* readable, and the hook runs to its end.
KickFairness ==
  /\ \/ []<>(\A sid \in {1} : ~sess[sid].hold_active) \/ []<><<KickHoldAny>>_vars
  /\ \/ []<>(thr.kick = 0) \/ []<><<KickWrite>>_vars
  /\ \/ []<>(~pipe[1] \/ thr.hook \/ tmp_list[1] # <<>>) \/ []<><<HookDrains>>_vars
  /\ \/ []<>(~thr.hook) \/ []<><<HookSplices>>_vars
  /\ \/ []<>(tmp_list[1] = <<>>) \/ []<><<NotifyRound>>_vars

FairKick == SpecKick /\ KickFairness

(* -- SpecThreads: the two threads, one statement at a time -------------- *)

\* The control thread and the session thread of one engine, each running
\* the statements of its current function in the order of the source.
\* thr holds both threads' remaining statements and the objects the two
\* threads share: the two indexes and the slab, the use count of the
\* interface, the notify list and the hook's local list, the pipe, the
\* published fields, the request lists, and the three exclusions
\* (birdloop_enter, bfd_lock_sessions, the loop running at all).

\* A statement: what it does, the session it is about (0: none), a value.
St(op, s, v) == [op |-> op, s |-> s, v |-> v]

ThreadStates == {BFD_STATE_DOWN, BFD_STATE_UP}

Fresh == [loc |-> BFD_STATE_DOWN, rem |-> BFD_STATE_DOWN, diag |-> BFD_DIAG_NOTHING]

RECURSIVE Cat(_)
Cat(ss) == IF ss = <<>> THEN <<>> ELSE Head(ss) \o Cat(Tail(ss))

\* bfd_lock_sessions / bfd_unlock_sessions around a locked read of the
\* published fields of session s.
locked_read(s) ==
  <<St("bfd_lock_sessions", 0, 0), St("read_state", s, 0), St("bfd_unlock_sessions", 0, 0)>>

bfd_add_session_code_split(s) ==
  << St("birdloop_enter", 0, 0),
     St("bfd_get_iface", 0, 0),
     St("sl_allocz", s, 0),
     St("HASH_INSERT_id", s, 0),
     St("birdloop_leave", 0, 0),
     St("birdloop_enter", 0, 0),
     St("HASH_INSERT_ip", s, 0),
     St("init_state", s, 0),
     St("birdloop_leave", 0, 0) >>

bfd_add_session_code(s) ==
  << St("birdloop_enter", 0, 0),
     St("bfd_get_iface", 0, 0),
     St("sl_allocz", s, 0),
     St("HASH_INSERT_id", s, 0),
     St("HASH_INSERT_ip", s, 0),
     St("init_state", s, 0),
     St("birdloop_leave", 0, 0) >>

\* bfd_remove_session without the rem_node of bfd.c:539-540.
bfd_remove_session_code_stays_linked(s) ==
  << St("birdloop_enter", 0, 0),
     St("bfd_free_iface", 0, 0),
     St("HASH_REMOVE_id", s, 0),
     St("HASH_REMOVE_ip", s, 0),
     St("sl_free", s, 0),
     St("birdloop_leave", 0, 0) >>

bfd_remove_session_code(s) ==
  << St("birdloop_enter", 0, 0),
     St("rem_node", s, 0),
     St("bfd_free_iface", 0, 0),
     St("HASH_REMOVE_id", s, 0),
     St("HASH_REMOVE_ip", s, 0),
     St("sl_free", s, 0),
     St("birdloop_leave", 0, 0) >>

\* bfd_add_request once the request is accepted: the lookup, made before
\* any birdloop_enter, decides whether bfd_add_session runs.
bfd_add_request_code(s) == << St("bfd_find_session_by_addr", s, 0) >>

bfd_request_free_code(s) == << St("rem_node_request", s, 0) >>

\* bfd_notify_hook; rel: the hooks it calls free their requests.
bfd_notify_hook_code(rel) ==
  << St("pipe_drain", 0, 0),
     St("bfd_lock_sessions", 0, 0),
     St("add_tail_list", 0, 0),
     St("bfd_unlock_sessions", 0, 0),
     St("WALK_LIST_FIRST", 0, rel) >>

\* bfd_reconfigure with a compatible configuration; ch: the interface's
\* new configuration differs from its old one.
bfd_reconfigure_code(ch) ==
  << St("WALK_LIST_iface_list", 0, ch),
     St("HASH_WALK_reconfigure", 0, 0) >>

bfd_reconfigure_iface_code(ch) ==
  << St("read_ifa_cf", 0, 0),
     St("write_ifa_changed", 0, ch),
     St("birdloop_enter", 0, 0),
     St("write_ifa_cf", 0, 0),
     St("birdloop_leave", 0, 0) >>

bfd_reconfigure_session_code(s) ==
  << St("birdloop_enter", 0, 0),
     St("write_session_cf", s, 0),
     St("birdloop_leave", 0, 0) >>

bfd_shutdown_code ==
  << St("rem_node_proto", 0, 0),
     St("birdloop_stop", 0, 0),
     St("HASH_WALK_drop", 0, 0),
     St("birdloop_enter", 0, 0),
     St("rfree_tpool", 0, 0),
     St("birdloop_leave", 0, 0),
     St("birdloop_free", 0, 0) >>

bfd_start_code ==
  << St("HASH_INIT", 0, 0),
     St("add_tail_proto", 0, 0),
     St("birdloop_enter", 0, 0),
     St("bfd_open_rx_sk", 0, 0),
     St("birdloop_leave", 0, 0),
     St("bfd_take_requests", 0, 0),
     St("birdloop_start", 0, 0) >>

\* The session thread: a hold timer that expired, and a packet that set
\* rem_state to rem and asks for local state st.
bfd_session_timeout_code(s) ==
  << St("write_rem_state", s, BFD_STATE_DOWN),
     St("bfd_session_update_state", s, <<BFD_STATE_DOWN, BFD_DIAG_TIMEOUT>>) >>

bfd_rx_hook_code(s, rem, st) ==
  << St("write_rem_state", s, rem),
     St("bfd_session_update_state", s, <<st, BFD_DIAG_NOTHING>>) >>

\* The sessions of a set in the order a walk visits them.
RECURSIVE InOrder(_)
InOrder(S) ==
  IF S = {} THEN <<>>
  ELSE LET a == CHOOSE x \in S : \A y \in S : x <= y
       IN <<a>> \o InOrder(S \ {a})

Repeat(x, n) == [i \in 1..n |-> x]

\* What a statement touches: the session registry (indexes and slab), the
\* interface list and its elements, the fields of a session that are not
\* published, the published fields, the notify list.
Touches(op) ==
  CASE op \in {"bfd_find_session_by_addr", "sl_allocz", "HASH_INSERT_id",
               "HASH_INSERT_ip", "HASH_REMOVE_id", "HASH_REMOVE_ip", "sl_free",
               "HASH_WALK_reconfigure", "HASH_WALK_drop", "HASH_INIT"} -> {"registry"}
    [] op \in {"bfd_get_iface", "bfd_free_iface", "WALK_LIST_iface_list",
               "read_ifa_cf", "write_ifa_changed", "write_ifa_cf",
               "rfree_tpool"} -> {"iface_list"}
    [] op \in {"add_tail_request", "rem_node_request", "notify_running_1",
               "notify", "notify_running_0", "EMPTY_LIST", "read_ifa_changed",
               "write_session_cf", "drop_requests"} -> {"private"}
    [] op = "init_state" -> {"private", "published"}
    [] op \in {"read_state", "write_rem_state", "write_loc_state"} -> {"published"}
    [] op \in {"rem_node", "rem_node_tmp", "add_tail_list", "add_tail_notify"} -> {"notify_list"}
    [] OTHER -> {}

\* The statements that write what they touch.
Writes(op) ==
  op \notin {"bfd_find_session_by_addr", "HASH_WALK_reconfigure", "HASH_WALK_drop",
             "WALK_LIST_iface_list", "read_ifa_cf", "EMPTY_LIST", "read_ifa_changed",
             "read_state"}

\* Thread who (1: control, 2: session) may execute statement st now:
\* birdloop_enter and birdloop_stop wait for the running hook of the
\* session thread to return, bfd_lock_sessions for the lock to be free.
Can(t, who, st) ==
  CASE st.op \in {"birdloop_enter", "birdloop_stop"} -> t.loop = <<>>
    [] st.op = "bfd_lock_sessions" -> t.lock = 0
    [] OTHER -> TRUE

\* The effect of statement st executed by thread who: the shared objects
\* after it, and in more the statements its outcome puts next.
Do(t, who, st) ==
  LET s == st.s
      same == [t |-> t, more |-> <<>>]
  IN CASE st.op = "birdloop_enter" -> [same EXCEPT !.t.cs = TRUE]
       [] st.op = "birdloop_leave" -> [same EXCEPT !.t.cs = FALSE]
       [] st.op = "bfd_lock_sessions" -> [same EXCEPT !.t.lock = who]
       [] st.op = "bfd_unlock_sessions" -> [same EXCEPT !.t.lock = 0]
       \* bfd_add_request
       [] st.op = "bfd_find_session_by_addr" ->
            [same EXCEPT !.more =
               (IF s \in t.hash_ip THEN <<>> ELSE bfd_add_session_code(s))
               \o <<St("add_tail_request", s, 0)>> \o locked_read(s)]
       [] st.op = "add_tail_request" -> [same EXCEPT !.t.rl[s] = @ + 1]
       \* bfd_add_session
       [] st.op = "bfd_get_iface" -> [same EXCEPT !.t.uc = @ + 1]
       [] st.op = "sl_allocz" -> [same EXCEPT !.t.slab = @ \cup {s}]
       [] st.op = "HASH_INSERT_id" -> [same EXCEPT !.t.hash_id = @ \cup {s}]
       [] st.op = "HASH_INSERT_ip" -> [same EXCEPT !.t.hash_ip = @ \cup {s}]
       [] st.op = "init_state" -> [same EXCEPT !.t.pub[s] = Fresh]
       \* bfd_request_free
       [] st.op = "rem_node_request" ->
            [same EXCEPT !.t.rl[s] = @ - 1,
                         !.more = IF t.rl[s] = 1 /\ t.nr # s
                                  THEN bfd_remove_session_code(s) ELSE <<>>]
       \* bfd_remove_session
       [] st.op = "rem_node" ->
            [same EXCEPT !.t.nl = SelectSeq(@, LAMBDA x : x # s),
                         !.t.tmp = SelectSeq(@, LAMBDA x : x # s)]
       [] st.op = "bfd_free_iface" -> [same EXCEPT !.t.uc = @ - 1]
       [] st.op = "HASH_REMOVE_id" -> [same EXCEPT !.t.hash_id = @ \ {s}]
       [] st.op = "HASH_REMOVE_ip" -> [same EXCEPT !.t.hash_ip = @ \ {s}]
       [] st.op = "sl_free" -> [same EXCEPT !.t.slab = @ \ {s}, !.t.pub[s] = Fresh]
       \* bfd_notify_hook
       [] st.op = "pipe_drain" -> [same EXCEPT !.t.kick = FALSE]
       [] st.op = "add_tail_list" -> [same EXCEPT !.t.tmp = t.nl, !.t.nl = <<>>]
       [] st.op = "WALK_LIST_FIRST" ->
            [same EXCEPT !.more =
               IF t.tmp = <<>> THEN <<>>
               ELSE LET h == Head(t.tmp)
                    IN << St("bfd_lock_sessions", 0, 0),
                          St("rem_node_tmp", h, 0),
                          St("read_state", h, 0),
                          St("bfd_unlock_sessions", 0, 0),
                          St("notify_running_1", h, 0),
                          St("notify", h, st.v),
                          St("notify_running_0", h, 0),
                          St("EMPTY_LIST", h, st.v) >>]
       [] st.op = "rem_node_tmp" -> [same EXCEPT !.t.tmp = SelectSeq(@, LAMBDA x : x # s)]
       [] st.op = "notify_running_1" -> [same EXCEPT !.t.nr = s]
       [] st.op = "notify" -> [same EXCEPT !.t.rl[s] = IF st.v THEN 0 ELSE @]
       [] st.op = "notify_running_0" -> [same EXCEPT !.t.nr = 0]
       [] st.op = "EMPTY_LIST" ->
            [same EXCEPT !.more =
               (IF t.rl[s] = 0 THEN bfd_remove_session_code(s) ELSE <<>>)
               \o <<St("WALK_LIST_FIRST", 0, st.v)>>]
       \* bfd_reconfigure
       [] st.op = "WALK_LIST_iface_list" ->
            [same EXCEPT !.more =
               IF t.uc > 0 THEN bfd_reconfigure_iface_code(st.v) ELSE <<>>]
       [] st.op = "write_ifa_changed" -> [same EXCEPT !.t.changed = st.v]
       [] st.op = "HASH_WALK_reconfigure" ->
            [same EXCEPT !.more =
               [i \in 1..Cardinality(t.hash_id) |->
                  St("read_ifa_changed", InOrder(t.hash_id)[i], 0)]]
       [] st.op = "read_ifa_changed" ->
            [same EXCEPT !.more =
               IF t.changed /\ t.rl[s] > 0
               THEN bfd_reconfigure_session_code(s) ELSE <<>>]
       \* bfd_shutdown
       [] st.op = "rem_node_proto" -> [same EXCEPT !.t.up = FALSE]
       [] st.op = "birdloop_stop" -> [same EXCEPT !.t.run = FALSE]
       [] st.op = "HASH_WALK_drop" ->
            [same EXCEPT !.more =
               [i \in 1..Cardinality(t.hash_id) |->
                  St("drop_requests", InOrder(t.hash_id)[i], 0)]]
       [] st.op = "drop_requests" ->
            [same EXCEPT !.t.wait[s] = @ + t.rl[s], !.t.rl[s] = 0]
       [] st.op = "rfree_tpool" -> [same EXCEPT !.t.uc = 0]
       \* bfd_start
       [] st.op = "HASH_INIT" ->
            [same EXCEPT !.t.hash_id = {}, !.t.hash_ip = {}, !.t.slab = {},
                         !.t.nl = <<>>, !.t.kick = FALSE, !.t.changed = FALSE,
                         !.t.pub = [a \in Addrs |-> Fresh]]
       [] st.op = "add_tail_proto" -> [same EXCEPT !.t.up = TRUE]
       [] st.op = "bfd_take_requests" ->
            [same EXCEPT !.t.wait = [a \in Addrs |-> 0],
                         !.more = Cat([i \in 1..MaxAddrs |->
                                        Cat(Repeat(bfd_add_request_code(i), t.wait[i]))])]
       [] st.op = "birdloop_start" -> [same EXCEPT !.t.run = TRUE]
       \* the session thread
       [] st.op = "write_rem_state" -> [same EXCEPT !.t.pub[s].rem = st.v]
       [] st.op = "bfd_session_update_state" ->
            [same EXCEPT !.more =
               IF st.v[1] = t.pub[s].loc THEN <<>>
               ELSE << St("bfd_lock_sessions", 0, 0),
                       St("write_loc_state", s, st.v),
                       St("add_tail_notify", s, 0) >>]
       [] st.op = "write_loc_state" ->
            [same EXCEPT !.t.pub[s].loc = st.v[1], !.t.pub[s].diag = st.v[2]]
       [] st.op = "add_tail_notify" ->
            LET notify == ~(\E i \in DOMAIN t.nl : t.nl[i] = s)
                          /\ ~(\E i \in DOMAIN t.tmp : t.tmp[i] = s)
            IN [same EXCEPT !.t.nl = IF notify THEN Append(@, s) ELSE @,
                            !.more = <<St("bfd_unlock_sessions", 0, 0)>>
                                     \o IF notify THEN <<St("bfd_notify_kick", 0, 0)>>
                                        ELSE <<>>]
       [] st.op = "bfd_notify_kick" -> [same EXCEPT !.t.kick = TRUE]
       [] OTHER -> same

InitThreads ==
  /\ sess = [sid \in {1} |-> bfd_add_session(1, sid, NoOptions, <<1>>)]
  /\ reqs = [r \in {1} |-> bfd_request_session(1, NoOptions, sess[1])]
  /\ notify_list = [p \in {1} |-> <<>>]
  /\ tmp_list = [p \in {1} |-> <<>>]
  /\ pipe = [p \in {1} |-> FALSE]
  /\ chan = [sid \in {1} |-> <<>>]
  /\ hist = [r \in {1} |-> <<>>]
  /\ silent = FALSE
  /\ trace = [sid \in DOMAIN sess |-> <<>>]
  /\ ifaces = [p \in DOMAIN pipe |-> 1]
  /\ proto_list = <<1>>
  /\ wait_list = <<>>
  /\ cfg = [p \in DOMAIN pipe |-> AcceptAll]
  /\ ifa = [p \in DOMAIN pipe |-> [cf |-> bfd_default_iface, changed |-> FALSE]]
  /\ thr = [main |-> <<>>, loop |-> <<>>, cs |-> FALSE, lock |-> 0,
            up |-> TRUE, run |-> TRUE,
            hash_id |-> {}, hash_ip |-> {}, slab |-> {}, uc |-> 0,
            nl |-> <<>>, tmp |-> <<>>, kick |-> FALSE,
            pub |-> [a \in Addrs |-> Fresh],
            rl |-> [a \in Addrs |-> 0], wait |-> [a \in Addrs |-> 0],
            nr |-> 0, changed |-> FALSE]

Others ==
  UNCHANGED <<sess, reqs, notify_list, tmp_list, pipe, chan, hist, silent, trace,
              ifaces, proto_list, wait_list, cfg, ifa>>

\* The requests counted by f for addresses 1..n.
RECURSIVE Total(_, _)
Total(f, n) == IF n = 0 THEN 0 ELSE f[n] + Total(f, n - 1)

\* The control thread begins a function: it runs one at a time.
Begin(code) ==
  /\ thr.main = <<>>
  /\ thr' = [thr EXCEPT !.main = code]
  /\ Others

\* bfd_request_session for address a: bfd_submit_request gives the
\* request to the engine if it is listed, else to the wait list.
ThrRequest(a) ==
  /\ Total(thr.rl, MaxAddrs) + Total(thr.wait, MaxAddrs) < MaxRequests
  /\ IF thr.up THEN Begin(bfd_add_request_code(a))
     ELSE /\ thr.main = <<>>
          /\ thr' = [thr EXCEPT !.wait[a] = @ + 1]
          /\ Others

\* rfree of a request for address a, attached or waiting.
ThrFree(a) ==
  \/ /\ thr.rl[a] > 0
     /\ Begin(bfd_request_free_code(a))
  \/ /\ thr.wait[a] > 0
     /\ thr.main = <<>>
     /\ thr' = [thr EXCEPT !.wait[a] = @ - 1]
     /\ Others

\* The main loop finds the pipe readable.
ThrHook(rel) == thr.up /\ thr.kick /\ Begin(bfd_notify_hook_code(rel))

ThrReconfigure(ch) == thr.up /\ Begin(bfd_reconfigure_code(ch))

ThrShutdown == thr.up /\ Begin(bfd_shutdown_code)

ThrStart == ~thr.up /\ Begin(bfd_start_code)

\* The control thread executes its next statement.
MainStep ==
  /\ thr.main # <<>>
  /\ Can(thr, 1, Head(thr.main))
  /\ LET done == Do(thr, 1, Head(thr.main))
     IN thr' = [done.t EXCEPT !.main = done.more \o Tail(thr.main)]
  /\ Others

\* The session loop dispatches a hook: it runs, the control thread is not
\* inside birdloop_enter, and no other hook is running.
Dispatch(code) ==
  /\ thr.run /\ ~thr.cs /\ thr.loop = <<>>
  /\ thr' = [thr EXCEPT !.loop = code]
  /\ Others

\* A packet for session s, found by either index.
ThrRx(s, byid, rem, st) ==
  /\ s \in (IF byid THEN thr.hash_id ELSE thr.hash_ip)
  /\ Dispatch(bfd_rx_hook_code(s, rem, st))

\* The hold timer of session s, which exists as long as the session does.
ThrTimeout(s) ==
  /\ s \in thr.slab
  /\ Dispatch(bfd_session_timeout_code(s))

LoopStep ==
  /\ thr.loop # <<>>
  /\ Can(thr, 2, Head(thr.loop))
  /\ LET done == Do(thr, 2, Head(thr.loop))
     IN thr' = [done.t EXCEPT !.loop = done.more \o Tail(thr.loop)]
  /\ Others

ThrRequests == \E a \in Addrs : ThrRequest(a)

ThrFrees == \E a \in Addrs : ThrFree(a)

ThrHooks == \E rel \in BOOLEAN : ThrHook(rel)

ThrReconfigures == \E ch \in BOOLEAN : ThrReconfigure(ch)

ThrRxs == \E s \in Addrs : \E byid \in BOOLEAN : \E rem, st \in ThreadStates : ThrRx(s, byid, rem, st)

ThrTimeouts == \E s \in Addrs : ThrTimeout(s)

NextThreads ==
  \/ ThrRequests
  \/ ThrFrees
  \/ ThrHooks
  \/ ThrReconfigures
  \/ ThrShutdown
  \/ ThrStart
  \/ MainStep
  \/ ThrRxs
  \/ ThrTimeouts
  \/ LoopStep

SpecThreads == InitThreads /\ [][NextThreads]_vars

\* Weak fairness of the four session-thread actions, WF_vars(PairTx(sid))
\* and WF_vars(PairRx(sid)), written out: PairTx(sid) is enabled exactly when
\* the TX timer is armed and the queue has room, PairRx(sid) exactly when a
\* packet is in flight to sid, and each of their steps changes chan.
PairTxFairness(sid) ==
  \/ []<>(~(sess[sid].tx_active /\ Len(chan[Peer(sid)]) < MaxQueue))
  \/ []<><<PairTx(sid)>>_vars

PairRxFairness(sid) ==
  \/ []<>(chan[sid] = <<>>)
  \/ []<><<PairRx(sid)>>_vars

\* The timers of the session thread fire, its sockets are read and the
\* main loop runs the notify hook whenever its pipe is readable.
FairPair ==
  /\ SpecPair
  /\ PairTxFairness(1) /\ PairTxFairness(2)
  /\ PairRxFairness(1) /\ PairRxFairness(2)
  /\ WF_vars(NotifyStart) /\ WF_vars(PairNotifyRound)

\* Weak fairness of HoldFire, WF_vars(HoldFire), written out: HoldFire is
\* enabled exactly when some hold timer is armed, and every HoldFire step
\* changes vars (the timer that fired is no longer armed).
HoldFairness ==
  \/ []<>(\A sid \in {1} : ~sess[sid].hold_active)
  \/ []<><<HoldFire>>_vars

\* Spec with the hold timer of the session thread firing once it is armed
\* and the main loop running the notify hook whenever its pipe is readable.
FairSpec ==
  /\ Spec
  /\ HoldFairness
  /\ WF_vars(NotifyStart) /\ WF_vars(NotifyRound)

(* ------------------------------ claims ------------------------------- *)

\* A step in which session sid has processed packet pkt, which is then
\* among the packets whose fields the session holds.
RxStep(sid, pkt) ==
  /\ pkt.state = sess'[sid].rem_state
  /\ pkt.req_min_rx_int = sess'[sid].rem_min_rx_int
  /\ pkt.demand = sess'[sid].rem_demand_mode
  /\ Rx(sid, pkt)

\* The session's (loc_state, loc_diag) after the step is (state, diag).
Becomes(sid, state, diag) ==
  /\ sess'[sid].loc_state = state
  /\ sess'[sid].loc_diag = diag

\* The step leaves the session's loc_state and loc_diag as they were.
Keeps(sid) ==
  /\ sess'[sid].loc_state = sess[sid].loc_state
  /\ sess'[sid].loc_diag = sess[sid].loc_diag

\* C1 as stated: a session in Down that processes a packet moves to Init
\* with diag None when the packet's state is Down, and to Up with diag None
\* when the packet's state is Init or Up.
C1_DownRowAsStated ==
  [][\A sid \in Sessions : \A pkt \in PlainPackets(sess[sid].loc_id) :
       sess[sid].loc_state = BFD_STATE_DOWN /\ RxStep(sid, pkt) =>
         /\ pkt.state = BFD_STATE_DOWN
              => Becomes(sid, BFD_STATE_INIT, BFD_DIAG_NOTHING)
         /\ pkt.state \in {BFD_STATE_INIT, BFD_STATE_UP}
              => Becomes(sid, BFD_STATE_UP, BFD_DIAG_NOTHING)]_vars

\* C1, amended: a session in Down that processes a packet moves to Init
\* with diag None when the packet's state is Down and to Up with diag None
\* when it is Init; a packet whose state is Up (or AdminDown) leaves the
\* session in Down with its diag unchanged.
C1_DownRow ==
  [][\A sid \in Sessions : \A pkt \in PlainPackets(sess[sid].loc_id) :
       sess[sid].loc_state = BFD_STATE_DOWN /\ RxStep(sid, pkt) =>
         /\ pkt.state = BFD_STATE_DOWN
              => Becomes(sid, BFD_STATE_INIT, BFD_DIAG_NOTHING)
         /\ pkt.state = BFD_STATE_INIT
              => Becomes(sid, BFD_STATE_UP, BFD_DIAG_NOTHING)
         /\ pkt.state \in {BFD_STATE_UP, BFD_STATE_ADMIN_DOWN}
              => Keeps(sid)]_vars

\* A session that is Down has processed a packet whose state is Up and has
\* stayed Down: no other step leaves a Down session with a remote state Up.
C1_Witness ==
  \E sid \in Sessions :
    /\ sess[sid].loc_state = BFD_STATE_DOWN
    /\ sess[sid].rem_state = BFD_STATE_UP
    /\ sess[sid].loc_diag = BFD_DIAG_TIMEOUT

\* C2: a session in Init goes Down with diag NeighborDown on a packet whose
\* state is AdminDown, Up with diag None on Init or Up, and does not change
\* on Down; a session in Up goes Down with diag NeighborDown on AdminDown or
\* Down and does not change on Init or Up; a session in AdminDown changes
\* neither loc_state nor loc_diag on any packet.
C2_InitUpAdminDownRows ==
  [][\A sid \in Sessions : \A pkt \in EnvPackets(sess[sid].loc_id) :
       sess[sid].loc_state # BFD_STATE_DOWN /\ RxStep(sid, pkt) =>
         /\ sess[sid].loc_state = BFD_STATE_INIT =>
              /\ pkt.state = BFD_STATE_ADMIN_DOWN
                   => Becomes(sid, BFD_STATE_DOWN, BFD_DIAG_NEIGHBOR_DOWN)
              /\ pkt.state \in {BFD_STATE_INIT, BFD_STATE_UP}
                   => Becomes(sid, BFD_STATE_UP, BFD_DIAG_NOTHING)
              /\ pkt.state = BFD_STATE_DOWN => Keeps(sid)
         /\ sess[sid].loc_state = BFD_STATE_UP =>
              /\ pkt.state \in {BFD_STATE_ADMIN_DOWN, BFD_STATE_DOWN}
                   => Becomes(sid, BFD_STATE_DOWN, BFD_DIAG_NEIGHBOR_DOWN)
              /\ pkt.state \in {BFD_STATE_INIT, BFD_STATE_UP} => Keeps(sid)
         /\ sess[sid].loc_state = BFD_STATE_ADMIN_DOWN => Keeps(sid)]_vars

\* A session has gone Down with diag NeighborDown on a packet whose state
\* is Down, which only a session in Up does.
C2_Witness ==
  \E sid \in Sessions :
    /\ sess[sid].loc_state = BFD_STATE_DOWN
    /\ sess[sid].loc_diag = BFD_DIAG_NEIGHBOR_DOWN
    /\ sess[sid].rem_state = BFD_STATE_DOWN

OnNotifyLists(sid) ==
  \/ InList(sid, notify_list[sess[sid].bfd])
  \/ InList(sid, tmp_list[sess[sid].bfd])

DetectionTime(s) == MAX(s.req_min_rx_int, s.rem_min_tx_int) * s.rem_detect_mult

\* Request r has been given (Down, Time expired) by its callback, with the
\* down flag set, after Up.
DeliveredTimeout(r) ==
  /\ reqs[r].hook
  /\ reqs[r].state = BFD_STATE_DOWN
  /\ reqs[r].diag = BFD_DIAG_TIMEOUT
  /\ reqs[r].old_state = BFD_STATE_UP
  /\ reqs[r].down

\* C4: a session that is Up has its hold timer armed with its detection
\* time; once the peer is silent the timer fires, the session becomes Down
\* with diag Time expired, and every request attached to it whose last
\* delivered state was Up is given Down, Time expired and down = true.
C4_PeerSilence ==
  /\ [](\A sid \in Sessions :
          sess[sid].loc_state = BFD_STATE_UP =>
            /\ sess[sid].hold_active
            /\ sess[sid].hold_timeout = DetectionTime(sess[sid]))
  /\ \A sid \in {1} :
       (silent /\ sess[sid].loc_state = BFD_STATE_UP)
         ~> (/\ sess[sid].loc_state = BFD_STATE_DOWN
             /\ sess[sid].loc_diag = BFD_DIAG_TIMEOUT)
  /\ \A r \in {1} :
       (/\ silent
        /\ sess[reqs[r].session].loc_state = BFD_STATE_UP
        /\ reqs[r].state = BFD_STATE_UP)
         ~> DeliveredTimeout(r)

\* The peer is silent and a request that had been given Up has been given
\* the timeout.
C4_Witness ==
  \E r \in Requests :
    /\ silent
    /\ DeliveredTimeout(r)
    /\ sess[reqs[r].session].loc_diag = BFD_DIAG_TIMEOUT

DownNone == <<BFD_STATE_DOWN, BFD_DIAG_NOTHING>>
InitNone == <<BFD_STATE_INIT, BFD_DIAG_NOTHING>>
UpNone == <<BFD_STATE_UP, BFD_DIAG_NOTHING>>

\* C5 as stated: a subscriber whose session has come up has been given
\* (Down, None), (Init, None) and (Up, None), in that order.
C5_AllThreeDelivered ==
  \A r \in Requests :
    reqs[r].state = BFD_STATE_UP => hist[r] = <<DownNone, InitNone, UpNone>>

\* C5, amended: both sessions eventually are Up with diag None and stay so;
\* until then each loc_state only moves forward (Down to Init or Up, Init to
\* Up); each subscriber is given (Down, None) at attachment, then
\* (Init, None) unless the session went from Down to Up directly or the
\* hook ran only after it was Up, then (Up, None), in that order.
C5_BringUp ==
  /\ [][\A sid \in {1, 2} :
          /\ sess'[sid].loc_state >= sess[sid].loc_state
          /\ sess'[sid].loc_diag = BFD_DIAG_NOTHING]_vars
  /\ [](\A r \in {1, 2} :
          hist[r] \in {<<DownNone>>, <<DownNone, InitNone>>, <<DownNone, UpNone>>,
                       <<DownNone, InitNone, UpNone>>})
  /\ <>[](\A sid \in {1, 2} :
            /\ sess[sid].loc_state = BFD_STATE_UP
            /\ sess[sid].loc_diag = BFD_DIAG_NOTHING)
  /\ <>[](\A r \in {1, 2} :
            /\ hist[r][Len(hist[r])] = UpNone
            /\ reqs[r].state = BFD_STATE_UP
            /\ reqs[r].diag = BFD_DIAG_NOTHING)

\* Both sessions are Up, one subscriber has been given all three states and
\* the other has been given Up right after Down.
C5_Witness ==
  /\ \A sid \in Sessions : sess[sid].loc_state = BFD_STATE_UP
  /\ \E r \in Requests : hist[r] = <<DownNone, InitNone, UpNone>>
  /\ \E r \in Requests : hist[r] = <<DownNone, UpNone>>

\* C6: between handlers and critical sections, a session whose
\* rem_min_rx_int is 0 has its TX timer not armed.
C6_NoTxWhenRemoteRxZero ==
  \A sid \in Sessions :
    sess[sid].rem_min_rx_int = 0 => ~sess[sid].tx_active

\* The peer of a session that is Up has announced req_min_rx_int = 0, and
\* the TX timer was stopped.
C6_Witness ==
  \E sid \in Sessions :
    /\ sess[sid].rem_min_rx_int = 0
    /\ sess[sid].loc_state = BFD_STATE_UP
    /\ sess[sid].last_tx = 0
    /\ ~sess[sid].tx_active

\* C7: between handlers and critical sections, a passive session with
\* rem_id = 0 has its TX timer not armed.
C7_PassiveSilent ==
  \A sid \in Sessions :
    sess[sid].passive /\ sess[sid].rem_id = 0 => ~sess[sid].tx_active

\* A passive session whose detection time expired: rem_id is back to 0 and
\* the TX timer is stopped.
C7_Witness ==
  \E sid \in Sessions :
    /\ sess[sid].passive
    /\ sess[sid].rem_id = 0
    /\ sess[sid].loc_diag = BFD_DIAG_TIMEOUT
    /\ ~sess[sid].tx_active

\* The four conditions under which the TX timer of s runs.
TxTimerRuns(s) ==
  /\ s.loc_state # BFD_STATE_ADMIN_DOWN
  /\ ~(s.passive /\ s.rem_id = 0)
  /\ ~(/\ s.rem_demand_mode
       /\ s.loc_state = BFD_STATE_UP
       /\ s.rem_state = BFD_STATE_UP
       /\ s.poll_active = 0)
  /\ s.rem_min_rx_int > 0

\* C8: between handlers and critical sections, the TX timer is armed if and
\* only if loc_state is not AdminDown, not (passive and rem_id = 0), not
\* (remote demand mode with both sides Up and no poll active), and
\* rem_min_rx_int > 0.
C8_TxTimerIff ==
  \A sid \in Sessions : sess[sid].tx_active <=> TxTimerRuns(sess[sid])

\* Both sides are Up and the peer is in demand mode; a poll is active and
\* the TX timer is armed.
C8_Witness ==
  \E sid \in Sessions :
    /\ sess[sid].rem_demand_mode
    /\ sess[sid].loc_state = BFD_STATE_UP
    /\ sess[sid].rem_state = BFD_STATE_UP
    /\ sess[sid].poll_active # 0
    /\ sess[sid].tx_active

\* C9: des_min_tx_int <= des_min_tx_new and req_min_rx_int >= req_min_rx_new
\* in every session.
C9_NewValuesBound ==
  \A sid \in Sessions :
    /\ sess[sid].des_min_tx_int <= sess[sid].des_min_tx_new
    /\ sess[sid].req_min_rx_int >= sess[sid].req_min_rx_new

\* A session with a postponed increase of des_min_tx_int and a postponed
\* decrease of req_min_rx_int.
C9_Witness ==
  \E sid \in Sessions :
    /\ sess[sid].des_min_tx_int < sess[sid].des_min_tx_new
    /\ sess[sid].req_min_rx_int > sess[sid].req_min_rx_new

\* A step in which session sid, Up, was reconfigured: bfd_session_set_min_tx
\* was called with the new cf.min_tx_int and bfd_session_set_min_rx with the
\* new cf.min_rx_int.
ReconfiguredUp(sid) ==
  /\ sess[sid].loc_state = BFD_STATE_UP
  /\ reqs' # reqs
  /\ \E r \in Requests : reqs'[r].opts # reqs[r].opts

\* The poll bit request is active or scheduled in s.
PollBit(s, request) ==
  HasBit(s.poll_active, request) \/ HasBit(s.poll_scheduled, request)

\* C10 as stated: while Up, a larger des_min_tx_int and a smaller
\* req_min_rx_int are applied at once with no poll opened; a smaller
\* des_min_tx_int and a larger req_min_rx_int are stashed in des_min_tx_new
\* and req_min_rx_new with the poll bit set.
C10_RaiseTxAppliedAtOnce ==
  [][\A sid \in Sessions :
       ReconfiguredUp(sid) =>
         LET s == sess[sid]
             t == sess'[sid]
             tx == t.cf.min_tx_int
             rx == t.cf.min_rx_int
         IN /\ tx > s.des_min_tx_int =>
                 /\ t.des_min_tx_int = tx
                 /\ PollBit(t, BFD_POLL_TX) => PollBit(s, BFD_POLL_TX)
            /\ rx < s.req_min_rx_int =>
                 /\ t.req_min_rx_int = rx
                 /\ PollBit(t, BFD_POLL_RX) => PollBit(s, BFD_POLL_RX)
            /\ tx < s.des_min_tx_int =>
                 /\ t.des_min_tx_int = s.des_min_tx_int
                 /\ t.des_min_tx_new = tx
                 /\ PollBit(t, BFD_POLL_TX)
            /\ rx > s.req_min_rx_int =>
                 /\ t.req_min_rx_int = s.req_min_rx_int
                 /\ t.req_min_rx_new = rx
                 /\ PollBit(t, BFD_POLL_RX)]_vars

\* C10, amended: while Up, a smaller des_min_tx_int and a larger
\* req_min_rx_int are applied at once; a larger des_min_tx_int and a smaller
\* req_min_rx_int leave the current value, and the new value is stashed in
\* des_min_tx_new and req_min_rx_new; in each case the poll bit is set
\* whenever the value differs from the one in des_min_tx_new or
\* req_min_rx_new.
C10_LowerTxAppliedAtOnce ==
  [][\A sid \in Sessions :
       ReconfiguredUp(sid) =>
         LET s == sess[sid]
             t == sess'[sid]
             tx == t.cf.min_tx_int
             rx == t.cf.min_rx_int
         IN /\ t.des_min_tx_new = tx
            /\ t.req_min_rx_new = rx
            /\ tx < s.des_min_tx_int => t.des_min_tx_int = tx
            /\ rx > s.req_min_rx_int => t.req_min_rx_int = rx
            /\ tx > s.des_min_tx_int => t.des_min_tx_int = s.des_min_tx_int
            /\ rx < s.req_min_rx_int => t.req_min_rx_int = s.req_min_rx_int
            /\ tx # s.des_min_tx_new => PollBit(t, BFD_POLL_TX)
            /\ rx # s.req_min_rx_new => PollBit(t, BFD_POLL_RX)]_vars

\* A session that is Up holds an increase of des_min_tx_int in
\* des_min_tx_new with the TX poll active, and took an increase of
\* req_min_rx_int at once with the RX poll active.
C10_Witness ==
  \E sid \in Sessions :
    /\ sess[sid].loc_state = BFD_STATE_UP
    /\ sess[sid].des_min_tx_int < sess[sid].des_min_tx_new
    /\ HasBit(sess[sid].poll_active, BFD_POLL_TX)
    /\ sess[sid].req_min_rx_int = MaxInterval
    /\ sess[sid].req_min_rx_new = MaxInterval
    /\ HasBit(sess[sid].poll_active, BFD_POLL_RX)

\* A step in which session sid, with a poll active or not as active says,
\* has processed a packet with the Final flag that caused no state
\* transition.
FinalStep(sid, active) ==
  /\ (sess[sid].poll_active # 0) = active
  /\ sess'[sid].loc_state = sess[sid].loc_state
  /\ \E pkt \in PollPackets(sess[sid].loc_id) : pkt.final /\ RxStep(sid, pkt)

\* C11 as stated: a Final processed while a poll is active commits the
\* stashed value of every bit of poll_active, poll_active becomes what was
\* scheduled and poll_scheduled becomes 0; a Final with no poll active
\* commits nothing.
C11_FinalCommitsActiveBits ==
  [][\A sid \in Sessions :
       LET s == sess[sid]
           t == sess'[sid]
       IN /\ FinalStep(sid, TRUE) =>
               /\ HasBit(s.poll_active, BFD_POLL_TX) =>
                    t.des_min_tx_int = s.des_min_tx_new
               /\ HasBit(s.poll_active, BFD_POLL_RX) =>
                    t.req_min_rx_int = s.req_min_rx_new
               /\ t.poll_active = s.poll_scheduled
               /\ t.poll_scheduled = 0
          /\ FinalStep(sid, FALSE) =>
               /\ t.des_min_tx_int = s.des_min_tx_int
               /\ t.req_min_rx_int = s.req_min_rx_int]_vars

\* C11, amended: a Final processed while a poll is active commits the
\* stashed value of every bit of poll_active that was not scheduled again
\* during the poll and leaves the current value of the other bits,
\* poll_active becomes what was scheduled and poll_scheduled becomes 0; a
\* Final with no poll active commits nothing.
C11_FinalCommitsDoneBits ==
  [][\A sid \in Sessions :
       LET s == sess[sid]
           t == sess'[sid]
           poll_done == BitAndNot(s.poll_active, s.poll_scheduled)
       IN /\ FinalStep(sid, TRUE) =>
               /\ t.des_min_tx_int = IF HasBit(poll_done, BFD_POLL_TX)
                                     THEN s.des_min_tx_new ELSE s.des_min_tx_int
               /\ t.req_min_rx_int = IF HasBit(poll_done, BFD_POLL_RX)
                                     THEN s.req_min_rx_new ELSE s.req_min_rx_int
               /\ t.poll_active = s.poll_scheduled
               /\ t.poll_scheduled = 0
          /\ FinalStep(sid, FALSE) =>
               /\ t.des_min_tx_int = s.des_min_tx_int
               /\ t.req_min_rx_int = s.req_min_rx_int
               /\ t.poll_active = 0]_vars

\* A Final has committed a postponed increase of des_min_tx_int while the
\* RX bit, scheduled again during the poll, is in a fresh poll with its
\* decrease of req_min_rx_int still postponed.
C11_Witness ==
  \E sid \in Sessions :
    /\ sess[sid].loc_state = BFD_STATE_UP
    /\ sess[sid].des_min_tx_int = MaxPollInterval
    /\ sess[sid].des_min_tx_new = MaxPollInterval
    /\ sess[sid].poll_active = BFD_POLL_RX
    /\ sess[sid].poll_scheduled = 0
    /\ sess[sid].req_min_rx_int > sess[sid].req_min_rx_new

\* C12: between handlers, a session whose loc_state is below Up has
\* des_min_tx_int equal to the idle_tx_int of its configuration.
C12_IdleTxBelowUp ==
  \A sid \in Sessions :
    sess[sid].loc_state < BFD_STATE_UP =>
      sess[sid].des_min_tx_int = sess[sid].cf.idle_tx_int

\* A step of SpecReply in which session sid has processed packet pkt.
SendStep(sid, pkt) ==
  /\ pkt.state = sess'[sid].rem_state
  /\ RxSend(sid, pkt)

\* C13: a processed packet with the Poll flag is answered by exactly one
\* packet, sent with the Final flag and built from the session as the
\* handler leaves it (state after the transition, intervals and masks after
\* the Final of the same packet was handled); a packet without the Poll flag
\* is not answered; a Final in the same packet has terminated the active
\* poll before.
C13_PollAnsweredAfterFinal ==
  [][\A sid \in Sessions : \A pkt \in PollPackets(sess[sid].loc_id) :
       SendStep(sid, pkt) =>
         LET s == sess[sid]
             t == sess'[sid]
             q == chan[Peer(sid)]
             q2 == chan'[Peer(sid)]
             poll_done == BitAndNot(s.poll_active, s.poll_scheduled)
         IN /\ ~pkt.poll => q2 = q
            /\ pkt.poll =>
                 /\ Len(q2) = Len(q) + 1
                 /\ SubSeq(q2, 1, Len(q)) = q
                 /\ q2[Len(q2)].final
                 /\ ~q2[Len(q2)].poll
                 /\ q2[Len(q2)].state = t.loc_state
                 /\ q2[Len(q2)].snd_id = t.loc_id
                 /\ q2[Len(q2)].rcv_id = t.rem_id
                 /\ q2[Len(q2)].des_min_tx_int = t.des_min_tx_new
                 /\ q2[Len(q2)].req_min_rx_int = t.req_min_rx_new
            /\ pkt.poll /\ pkt.final /\ s.poll_active # 0 =>
                 /\ t.req_min_rx_int = IF HasBit(poll_done, BFD_POLL_RX)
                                       THEN s.req_min_rx_new ELSE s.req_min_rx_int
                 /\ t.loc_state = s.loc_state =>
                      /\ t.poll_active = s.poll_scheduled
                      /\ t.poll_scheduled = 0]_vars

\* The session went Up on a packet with the Poll flag: its answer, on its
\* way to the peer, has the Final flag and state Up.
C13_Witness ==
  \E sid \in Sessions :
    /\ sess[sid].loc_state = BFD_STATE_UP
    /\ sess[sid].loc_diag = BFD_DIAG_NOTHING
    /\ chan[Peer(sid)] # <<>>
    /\ chan[Peer(sid)][1].final
    /\ chan[Peer(sid)][1].state = BFD_STATE_UP
    /\ chan[Peer(sid)][1].rcv_id # 0

\* A step in which bfd_update_request has reconfigured session sid.
Reconfigured(sid) ==
  /\ reqs' # reqs
  /\ \E r \in Requests : reqs'[r].session = sid /\ reqs'[r].opts # reqs[r].opts

C16_DeliveredIffNotInFlight ==
  \A r \in Requests :
    LET sid == reqs[r].session
    IN (<<reqs[r].state, reqs[r].diag>> = <<sess[sid].loc_state, sess[sid].loc_diag>>)
         <=> ~OnNotifyLists(sid)

\* The positions in tr of the state changes from Up to Down.
UpDowns(tr) ==
  {i \in 2 .. Len(tr) : tr[i][1] = BFD_STATE_DOWN /\ tr[i - 1][1] = BFD_STATE_UP}

\* The rem_state the session had when it last went from Up to Down.
RemoteAtLastDown(tr) ==
  tr[CHOOSE i \in UpDowns(tr) : \A j \in UpDowns(tr) : j <= i][3]

\* C17: in every delivery to a request, down is true exactly when the
\* state delivered before was Up, the state delivered is Down, and the
\* session's rem_state when it went from Up to Down was not AdminDown.
C17_DownFlagOfTransition ==
  [][\A r \in Requests :
       reqs'[r].state # reqs[r].state =>
         LET tr == trace[reqs[r].session]
         IN reqs'[r].down <=>
              /\ reqs[r].state = BFD_STATE_UP
              /\ reqs'[r].state = BFD_STATE_DOWN
              /\ UpDowns(tr) # {}
              /\ RemoteAtLastDown(tr) # BFD_STATE_ADMIN_DOWN]_vars

\* The (state, diag) pairs of the state changes noted in tr.
Changes(tr) == [i \in 1 .. Len(tr) |-> <<tr[i][1], tr[i][2]>>]

IsPrefix(a, b) == Len(a) <= Len(b) /\ SubSeq(b, 1, Len(a)) = a

RECURSIVE IsSubseq(_, _)
IsSubseq(a, b) ==
  IF a = <<>> THEN TRUE
  ELSE IF b = <<>> THEN FALSE
  ELSE IF Head(a) = Head(b) THEN IsSubseq(Tail(a), Tail(b))
  ELSE IsSubseq(a, Tail(b))

\* C18 as stated: what a request's callback has been given is the sequence
\* of its session's state changes so far, none left out.
C18_DeliveredMatchesChanges ==
  \A r \in Requests : IsPrefix(hist[r], Changes(trace[reqs[r].session]))

\* C18, amended: what a request's callback has been given is a
\* subsequence of its session's state changes, in their order (a state the
\* session left before bfd_notify_hook ran is skipped); no state is
\* delivered twice in a row, the first one delivered is not the Down given
\* at attachment, and once the session is on no notify list the state last
\* delivered is its loc_state.
C18_DeliveredInOrder ==
  \A r \in Requests :
    LET sid == reqs[r].session
    IN /\ IsSubseq(hist[r], Changes(trace[sid]))
       /\ \A i \in 1 .. Len(hist[r]) - 1 : hist[r][i][1] # hist[r][i + 1][1]
       /\ hist[r] # <<>> => hist[r][1][1] # BFD_STATE_DOWN
       /\ hist[r] # <<>> => reqs[r].state = hist[r][Len(hist[r])][1]
       /\ ~OnNotifyLists(sid) => reqs[r].state = sess[sid].loc_state

\* The session went Down, Init, Up, Down (detection timeout); the hook ran
\* when it was Up and when it was Down again, Init was never delivered.
C18_Witness ==
  \E r \in Requests :
    /\ hist[r] = <<UpNone, <<BFD_STATE_DOWN, BFD_DIAG_TIMEOUT>>>>
    /\ Len(trace[reqs[r].session]) = 3
    /\ trace[reqs[r].session][1][1] = BFD_STATE_INIT
    /\ ~OnNotifyLists(reqs[r].session)

\* C15: every registered session has a local discriminator that is not 0
\* and that no other session of its engine has, whatever requests were
\* added and released before.
C15_LocIdUnique ==
  \A a \in Sessions :
    /\ sess[a].loc_id # 0
    /\ \A b \in Sessions \ {a} :
         sess[a].bfd = sess[b].bfd => sess[a].loc_id # sess[b].loc_id

\* Two sessions, the second of which got its id by counting on from the
\* largest id past 0.
C15_Witness ==
  /\ Sessions = {1, 2}
  /\ sess[1].loc_id = IdMod - 1
  /\ sess[2].loc_id = 1

\* C20: outside a round of bfd_notify_hook (and with the engine running)
\* every registered session has at least one request attached, and the
\* requests on its list are alive and point back to it; so a session
\* whose last request is released is removed by that release.
C20_SessionHasRequest ==
  \A a \in Sessions :
    /\ sess[a].request_list # <<>>
    /\ ~sess[a].notify_running
    /\ \A i \in 1 .. Len(sess[a].request_list) :
         /\ sess[a].request_list[i] \in Requests
         /\ reqs[sess[a].request_list[i]].session = a

\* Request 1 has been released and request 2 holds the only session, whose
\* neighbour has been heard.
C20_Witness ==
  /\ Requests = {2}
  /\ Sessions = {reqs[2].session}
  /\ sess[reqs[2].session].loc_state = BFD_STATE_UP
  /\ ifaces[1] = 1

\* The registry after the requests of l that are in F have been released
\* by bfd_request_free, one after the other, outside any callback.
RECURSIVE ReleasedAfter(_, _, _)
ReleasedAfter(w, l, F) ==
  IF l = <<>> THEN w
  ELSE ReleasedAfter(IF Head(l) \in F THEN bfd_request_free(w, Head(l)) ELSE w,
                     Tail(l), F)

\* C19: when requests release themselves inside their own callback during
\* a round of bfd_notify_hook, the session stays registered and marked
\* notify_running until the walk over its requests is over, it is removed
\* at the end of the round exactly when its request list is then empty,
\* and the registry, the interfaces' use counts and the request lists end
\* as they do when the callbacks return and the same requests are released
\* right after the round.
C19_ReleaseInCallback ==
  [][\A p \in Engines :
       tmp_list[p] # <<>> =>
         \A F \in SUBSET Called(World, p) :
           LET sid == Head(tmp_list[p])
               ws == bfd_notify_round(World, p, F)
               after == Last(bfd_notify_round(World, p, {}))
           IN (F # {} /\ RegDispatch(p, F)) =>
                /\ \A i \in 1 .. Len(ws) - 1 :
                     /\ sid \in DOMAIN ws[i].sess
                     /\ ws[i].sess[sid].notify_running
                /\ sid \in Sessions' <=> ws[Len(ws) - 1].sess[sid].request_list # <<>>
                /\ sid \in Sessions' => ~sess'[sid].notify_running
                /\ World' = ReleasedAfter(after, sess[sid].request_list, F)]_vars

\* A round in which the only request of the only session released itself
\* in its callback when told that the session is Up: the session and the
\* interface are gone.
C19_Witness ==
  /\ DOMAIN hist = {1}
  /\ hist[1] = <<UpNone>>
  /\ Sessions = {}
  /\ Requests = {}
  /\ ifaces[1] = 0

\* C21: of two calls of bfd_update_request in a row with the same options
\* at most one calls bfd_reconfigure_session, and the second one changes
\* no request and no field of a session (it sends nothing and restarts no
\* timer); a call with the options the request already has changes nothing
\* and does not reconfigure.
C21_UpdateTwice ==
  \A r \in Requests : \A opts \in Options :
    LET once == bfd_update_request_body(reqs, sess, r, opts)
        twice == bfd_update_request_body(once.reqs, Settled(once.sess), r, opts)
    IN /\ once.reqs[r].opts = opts
       /\ twice.reconfigured = 0
       /\ twice.reqs = once.reqs
       /\ twice.sess = Settled(once.sess)
       /\ opts = reqs[r].opts =>
            /\ once.reconfigured = 0
            /\ once.reqs = reqs
            /\ once.sess = sess

\* A session that is Up took new options whose larger min_rx_int started
\* an RX poll, and its control packet with the Poll bit is due.
C21_Witness ==
  \E r \in Requests :
    LET s == sess[reqs[r].session]
    IN /\ s.loc_state = BFD_STATE_UP
       /\ reqs[r].opts.min_rx_int = MaxInterval
       /\ s.cf.min_rx_int = MaxInterval
       /\ s.req_min_rx_new = MaxInterval
       /\ HasBit(s.poll_active, BFD_POLL_RX)
       /\ s.req_min_rx_int = MaxInterval

\* The place of engine p in bfd_proto_list.
Place(p) == CHOOSE i \in 1 .. Len(proto_list) : proto_list[i] = p

\* C22: a request with a session is on the request list of a session of a
\* running engine that accepts it (VRF, address family and mode), and no
\* engine before that one in bfd_proto_list accepts it; a request without
\* a session is on the wait list, in state AdminDown, and no running
\* engine accepts it.
C22_FirstAcceptingEngine ==
  \A r \in Requests :
    IF reqs[r].session # NULL
    THEN LET sid == reqs[r].session
             p == sid[1]
         IN /\ InList(p, proto_list)
            /\ sid \in Sessions
            /\ sid = <<p, reqs[r].addr, reqs[r].iface>>
            /\ InList(r, sess[sid].request_list)
            /\ ~InList(r, wait_list)
            /\ Accepts(cfg[p], reqs[r])
            /\ \A i \in 1 .. Place(p) - 1 : ~Accepts(cfg[proto_list[i]], reqs[r])
    ELSE /\ InList(r, wait_list)
         /\ \A sid \in Sessions : ~InList(r, sess[sid].request_list)
         /\ reqs[r].state = BFD_STATE_ADMIN_DOWN
         /\ \A i \in 1 .. Len(proto_list) : ~Accepts(cfg[proto_list[i]], reqs[r])

\* Two engines run; one request is attached to the second, which the first
\* refuses, and another request is on the wait list.
C22_Witness ==
  /\ Len(proto_list) = 2
  /\ \E r \in Requests :
       /\ reqs[r].session # NULL
       /\ reqs[r].session[1] = proto_list[2]
  /\ wait_list # <<>>

\* The callbacks of request r among those the last operation invoked.
CallsOf(h, r) == SelectSeq(h, LAMBDA c : c[1] = r)

\* C23 as claimed: whenever an operation leaves a request parked that was
\* not parked before it, a new one of bfd_request_session or one whose
\* engine stopped, the operation has called its hook with state AdminDown.
C23_ParkedIsNotified ==
  [][\A r \in Requests' :
       (reqs'[r].session = NULL /\ (r \notin Requests \/ reqs[r].session # NULL)) =>
         \E i \in 1 .. Len(hist') :
           hist'[i][1] = r /\ hist'[i][2] = BFD_STATE_ADMIN_DOWN]_vars

\* C23, amended: a request that loses its session because its engine stops
\* and no other engine accepts it has its hook called once, with state
\* AdminDown and down unset, within bfd_shutdown; a request that
\* bfd_request_session has just made has had no call of its hook, whether
\* it was attached or parked, and when parked its state is AdminDown.
C23_DroppedIsNotified ==
  [][\A r \in Requests' :
       /\ (r \in Requests /\ reqs[r].session # NULL /\ reqs'[r].session = NULL) =>
            /\ CallsOf(hist', r) = <<<<r, BFD_STATE_ADMIN_DOWN, BFD_DIAG_NOTHING, FALSE>>>>
            /\ reqs'[r].state = BFD_STATE_ADMIN_DOWN
            /\ InList(r, wait_list')
       /\ r \notin Requests =>
            /\ CallsOf(hist', r) = <<>>
            /\ reqs'[r].hook
            /\ reqs'[r].session = NULL => reqs'[r].state = BFD_STATE_ADMIN_DOWN]_vars

\* The only engine has stopped: its request is on the wait list and its
\* hook was called with AdminDown.
C23_Witness ==
  /\ proto_list = <<>>
  /\ wait_list = <<1>>
  /\ hist = <<<<1, BFD_STATE_ADMIN_DOWN, BFD_DIAG_NOTHING, FALSE>>>>
  /\ reqs[1].old_state = BFD_STATE_DOWN

\* This step is bfd_shutdown of engine p.
Stopped(p) == InList(p, proto_list) /\ ~InList(p, proto_list')

\* After bfd_shutdown of p, request r, which was attached to a session of
\* p, is attached to a session of a running engine that accepts it, or is
\* on the wait list without a session; it is not with p.
HandedOver(p, r) ==
  /\ r \in Requests'
  /\ \A sid \in Sessions' : sid[1] = p => ~InList(r, sess'[sid].request_list)
  /\ IF reqs'[r].session = NULL
     THEN /\ InList(r, wait_list')
          /\ \A sid \in Sessions' : ~InList(r, sess'[sid].request_list)
     ELSE LET sid == reqs'[r].session
          IN /\ sid[1] # p
             /\ InList(sid[1], proto_list')
             /\ Accepts(cfg'[sid[1]], reqs'[r])
             /\ sid \in Sessions'
             /\ InList(r, sess'[sid].request_list)
             /\ ~InList(r, wait_list')

\* C24 as claimed: bfd_shutdown hands every request of the engine over,
\* and none of the callbacks it invokes carries down = true.
C24_HandoverNeverDown ==
  [][\A p \in Protos :
       Stopped(p) =>
         /\ \A r \in Requests :
              (reqs[r].session # NULL /\ reqs[r].session[1] = p) => HandedOver(p, r)
         /\ \A i \in 1 .. Len(hist') : ~hist'[i][4]]_vars

\* C24, amended: bfd_shutdown hands every request of the engine over, and
\* a callback it invokes carries down = true exactly when the request had
\* been told Up and is now attached to a session of another engine that is
\* Down with a remote state other than AdminDown; the callback of a
\* request that is parked carries down = false.
C24_HandoverDownOnlyToSuccessor ==
  [][\A p \in Protos :
       Stopped(p) =>
         /\ \A r \in Requests :
              (reqs[r].session # NULL /\ reqs[r].session[1] = p) => HandedOver(p, r)
         /\ \A i \in 1 .. Len(hist') :
              LET r == hist'[i][1]
              IN /\ reqs[r].session # NULL
                 /\ reqs[r].session[1] = p
                 /\ hist'[i][4] <=>
                      /\ reqs[r].state = BFD_STATE_UP
                      /\ reqs'[r].session # NULL
                      /\ sess'[reqs'[r].session].loc_state = BFD_STATE_DOWN
                      /\ sess'[reqs'[r].session].rem_state # BFD_STATE_ADMIN_DOWN]_vars

\* Engine 1 has stopped while request 1 had been told Up: the request is
\* now with a session of engine 2, and its hook was called with Down and
\* down = true.
C24_Witness ==
  /\ proto_list = <<2>>
  /\ 1 \in Requests
  /\ reqs[1].session = <<2, 4, 1>>
  /\ reqs[1].old_state = BFD_STATE_UP
  /\ hist = <<<<1, BFD_STATE_DOWN, BFD_DIAG_NOTHING, TRUE>>>>

\* C25: bfd_reconfigure returns 0 for every new configuration that differs
\* from the engine's in accept_ipv4, accept_ipv6, accept_direct,
\* accept_multihop, strict_bind or zero_udp6_checksum_rx, and then it has
\* left the interface's config pointer and changed flag, the sessions, the
\* requests and the engine's configuration as they were.
C25_IncompatibleChangesNothing ==
  \A p \in Engines : \A new \in NewConfigs :
    (\/ new.conf.accept_ipv4 # cfg[p].accept_ipv4
     \/ new.conf.accept_ipv6 # cfg[p].accept_ipv6
     \/ new.conf.accept_direct # cfg[p].accept_direct
     \/ new.conf.accept_multihop # cfg[p].accept_multihop
     \/ new.conf.strict_bind # cfg[p].strict_bind
     \/ new.conf.zero_udp6_checksum_rx # cfg[p].zero_udp6_checksum_rx) =>
      LET done == bfd_reconfigure(Conf, p, new)
      IN /\ done.ret = 0
         /\ done.sess = sess
         /\ done.reqs = reqs
         /\ done.ifa = ifa
         /\ done.cfg = cfg

\* The last bfd_reconfigure returned 0, after an earlier one had changed
\* the interface's configuration and reconfigured the session, which is Up.
C25_Witness ==
  /\ hist = <<0>>
  /\ ifa[1].changed
  /\ ifa[1].cf.passive
  /\ sess[1].passive
  /\ sess[1].loc_state = BFD_STATE_UP

\* C26: whenever the session thread can run a hook (the control thread is
\* not between birdloop_enter and birdloop_leave, and a running hook keeps
\* it out), a session is in the by-id index iff it is in the
\* by-(addr, ifindex) index iff it is allocated from the slab.
C26_IndexesAgree ==
  /\ thr.loop # <<>> => ~thr.cs
  /\ ~thr.cs => (thr.hash_id = thr.hash_ip /\ thr.hash_ip = thr.slab)

\* A hook of the session thread is running on session 2, found in both
\* indexes, while the control thread waits at the birdloop_enter of
\* bfd_remove_session for that session; session 1 was added as well.
C26_Witness ==
  /\ thr.loop # <<>>
  /\ Head(thr.loop).s = 2
  /\ thr.main = bfd_remove_session_code(2)
  /\ thr.hash_id = {1, 2}
  /\ thr.hash_ip = {1, 2}
  /\ thr.slab = {1, 2}

\* C27: the statement the control thread executes next touches the
\* session registry, the interface list or a private field of a session
\* only between birdloop_enter and birdloop_leave.
C27_OnlyInsideCriticalSection ==
  (/\ thr.main # <<>>
   /\ Touches(Head(thr.main).op) \cap {"registry", "iface_list", "private"} # {})
    => thr.cs

\* C28: the statement a thread executes next writes a published field of
\* a registered session, or inserts into or removes from the notify list,
\* only while that thread holds the lock of bfd_lock_sessions.
C28_WritesHoldTheLock ==
  \A who \in {1, 2} :
    LET code == IF who = 1 THEN thr.main ELSE thr.loop
    IN (/\ code # <<>>
        /\ Writes(Head(code).op)
        /\ \/ "notify_list" \in Touches(Head(code).op)
           \/ /\ "published" \in Touches(Head(code).op)
              /\ Head(code).s \in thr.hash_id \cup thr.hash_ip)
         => thr.lock = who

\* The ids in use in engine p.
UsedIds(p) == {sess[a].loc_id : a \in {b \in Sessions : sess[b].bfd = p}}

\* C30: with fewer than IdMod - 1 sessions registered, bfd_get_free_id
\* started from any value returns an id that is not 0 and not in use: the
\* first such value counting up from the start modulo IdMod, every value
\* before it being 0 or in use.
C30_FreeIdIsFirstFree ==
  \A p \in Engines : \A start \in 0 .. IdMod - 1 :
    Cardinality(UsedIds(p)) < IdMod - 1 =>
      LET id == bfd_get_free_id(UsedIds(p), start)
      IN /\ id # 0
         /\ id \notin UsedIds(p)
         /\ \E k \in 0 .. IdMod - 1 :
              /\ id = (start + k) % IdMod
              /\ \A j \in 0 .. k - 1 :
                   (start + j) % IdMod \in UsedIds(p) \cup {0}

\* The only registered session has the largest id: counting from it,
\* bfd_get_free_id passes that id, wraps to 0 and passes it too.
C30_Witness ==
  /\ Sessions = {2}
  /\ sess[2].loc_id = IdMod - 1
  /\ bfd_get_free_id(UsedIds(1), IdMod - 1) = 1

\* The peer has stopped and the detection time has passed: the session's
\* state changes no more.
Quiet == silent /\ \A sid \in {1} : ~sess[sid].hold_active

\* C29: a session on the notify list of its engine always has a wake-up
\* pending (the pipe holds a kick, the session thread is about to write
\* one, or a running bfd_notify_hook has not yet taken the list); so a
\* session with a notification pending is eventually read by the hook,
\* and once the session's state changes no more every request attached
\* to it holds the session's loc_state, and keeps it.
C29_NoLostNotification ==
  /\ [](\A p \in {1} :
          notify_list[p] # <<>> => (pipe[p] \/ thr.kick = p \/ thr.hook))
  /\ \A sid \in {1} : sess[sid].linked ~> ~sess[sid].linked
  /\ Quiet ~> [](\A r \in {1} : reqs[r].state = sess[reqs[r].session].loc_state)

\* The session went Up and then timed out while bfd_notify_hook had
\* drained the pipe and not yet taken the list: the session is on the
\* list, the pipe is empty, and the request still holds Up.
C29_Witness ==
  /\ thr.hook
  /\ ~pipe[1]
  /\ thr.kick = 0
  /\ notify_list[1] = <<1>>
  /\ Quiet
  /\ sess[1].loc_diag = BFD_DIAG_TIMEOUT
  /\ reqs[1].state = BFD_STATE_UP

\* C34: between handlers, a session whose des_min_tx_int differs from
\* des_min_tx_new has the TX bit in poll_active or poll_scheduled, and one
\* whose req_min_rx_int differs from req_min_rx_new has the RX bit there.
C34_DeferredHasPoll ==
  \A sid \in Sessions :
    LET s == sess[sid]
    IN /\ s.des_min_tx_int # s.des_min_tx_new =>
            HasBit(BitOr(s.poll_active, s.poll_scheduled), BFD_POLL_TX)
       /\ s.req_min_rx_int # s.req_min_rx_new =>
            HasBit(BitOr(s.poll_active, s.poll_scheduled), BFD_POLL_RX)

\* C38: between handlers, bits are in poll_scheduled only while a poll is
\* active; bfd_session_request_poll on a session with rem_id 0 changes
\* nothing, neither mask nor the TX timer; and a Final that ends a poll
\* moves the scheduled bits to poll_active.
C38_ScheduledOnlyWhileActive ==
  /\ [](\A sid \in Sessions :
          /\ sess[sid].poll_scheduled # 0 => sess[sid].poll_active # 0
          /\ sess[sid].rem_id = 0 =>
               \A request \in PollMasks \ {0} :
                 bfd_session_request_poll(sess[sid], request) = sess[sid])
  /\ [][\A sid \in Sessions :
          FinalStep(sid, TRUE) =>
            /\ sess'[sid].poll_active = sess[sid].poll_scheduled
            /\ sess'[sid].poll_scheduled = 0]_vars

\* A second change of the intervals was made while the poll of the first
\* was in flight: one bit is active, the other is parked.
C38_Witness ==
  \E sid \in Sessions :
    /\ sess[sid].loc_state = BFD_STATE_UP
    /\ sess[sid].poll_active = BFD_POLL_RX
    /\ sess[sid].poll_scheduled = BFD_POLL_TX
    /\ sess[sid].des_min_tx_int # sess[sid].des_min_tx_new

\* C35: no session is ever in AdminDown; a step changes a session's
\* loc_state only from Down to Init, Down to Up, Init to Up, Init to Down
\* or Up to Down; into Init or Up only by processing a received packet,
\* and into Down only by that or by the hold timer.
C35_StateChanges ==
  /\ [](\A sid \in Sessions : sess[sid].loc_state # BFD_STATE_ADMIN_DOWN)
  /\ [][\A sid \in Sessions :
          sess'[sid].loc_state # sess[sid].loc_state =>
            /\ <<sess[sid].loc_state, sess'[sid].loc_state>> \in
                 { <<BFD_STATE_DOWN, BFD_STATE_INIT>>,
                   <<BFD_STATE_DOWN, BFD_STATE_UP>>,
                   <<BFD_STATE_INIT, BFD_STATE_UP>>,
                   <<BFD_STATE_INIT, BFD_STATE_DOWN>>,
                   <<BFD_STATE_UP, BFD_STATE_DOWN>> }
            /\ \/ \E pkt \in EnvPackets(sess[sid].loc_id) : RxStep(sid, pkt)
               \/ /\ sess'[sid].loc_state = BFD_STATE_DOWN
                  /\ HoldTimer(sid)]_vars

\* A session that went Up and was then reconfigured is still Up, the poll
\* of the reconfiguration in flight.
C35_Witness ==
  \E sid \in Sessions :
    /\ sess[sid].loc_state = BFD_STATE_UP
    /\ sess[sid].rem_state = BFD_STATE_UP
    /\ sess[sid].poll_active = BFD_POLL_TX
    /\ sess[sid].des_min_tx_new # sess[sid].des_min_tx_int
    /\ sess[sid].tx_active

\* C36: when bfd_notify_hook dispatches the first session of its list,
\* whatever requests of that session each hook it calls releases, every
\* request the loop comes to is on the session's list at that moment.
C36_VisitsOnlyAttached ==
  \A p \in Engines :
    tmp_list[p] # <<>> =>
      LET l == sess[Head(tmp_list[p])].request_list
          on == {l[i] : i \in 1 .. Len(l)}
      IN \A rel \in [Called(World, p) -> SUBSET on] :
           LET seen == bfd_notify_visits(l, IF l = <<>> THEN 0 ELSE l[1], rel, <<>>)
           IN \A i \in 1 .. Len(seen) : seen[i][2]

\* Number of times r is linked in list l.
Occurrences(r, l) == Len(SelectSeq(l, LAMBDA x : x = r))

\* C37: between the return of bfd_request_session and its release, every
\* request is linked exactly once over the wait list and the request lists
\* of all sessions; it is on the wait list exactly when req->session is
\* NULL, and otherwise on the request list of req->session, a registered
\* session of an engine of bfd_proto_list.  The lists hold no released
\* request.
C37_OnExactlyOneList ==
  /\ \A r \in Requests :
       /\ Occurrences(r, wait_list)
            + Cardinality({sid \in Sessions : InList(r, sess[sid].request_list)}) = 1
       /\ \A sid \in Sessions : Occurrences(r, sess[sid].request_list) <= 1
       /\ (reqs[r].session = NULL) <=> (Occurrences(r, wait_list) = 1)
       /\ reqs[r].session # NULL =>
            /\ reqs[r].session \in Sessions
            /\ Occurrences(r, sess[reqs[r].session].request_list) = 1
            /\ InList(sess[reqs[r].session].bfd, proto_list)
  /\ \A i \in 1 .. Len(wait_list) : wait_list[i] \in Requests
  /\ \A sid \in Sessions : \A i \in 1 .. Len(sess[sid].request_list) :
       sess[sid].request_list[i] \in Requests

\* Two requests share one session of a running engine while no request
\* waits: both came through the wait list or a stopped engine before.
C37_Witness ==
  /\ \E sid \in Sessions : Len(sess[sid].request_list) = 2
  /\ wait_list = <<>>
  /\ Len(proto_list) = 1
  /\ Cardinality(Requests) = 2

\* The sessions linked through their node n: the notify list of the
\* engine followed by the local list of bfd_notify_hook.
Linked == thr.nl \o thr.tmp

\* C39: a session is linked at most once over the notify list and the
\* local list of bfd_notify_hook, every linked session is allocated, and
\* the hook reads the state of a session for its notification only after
\* it unlinked the session, in every interleaving of the two threads.
C39_LinkedAtMostOnce ==
  /\ \A i, j \in 1 .. Len(Linked) : Linked[i] = Linked[j] => i = j
  /\ \A i \in 1 .. Len(Linked) : Linked[i] \in thr.slab
  /\ (/\ Len(thr.main) >= 3
      /\ thr.main[1].op = "read_state"
      /\ thr.main[3].op = "notify_running_1")
       => \A i \in 1 .. Len(Linked) : Linked[i] # thr.main[1].s

\* bfd_remove_session is past its rem_node for a session that is no
\* longer linked while the other session waits on the notify list with
\* the kick pending.
C39_Witness ==
  /\ Len(thr.main) >= 2
  /\ thr.main[1].op = "bfd_free_iface"
  /\ thr.main[2].op = "HASH_REMOVE_id"
  /\ thr.main[2].s \in thr.slab
  /\ thr.tmp = <<>>
  /\ Len(thr.nl) = 1
  /\ thr.nl[1] # thr.main[2].s
  /\ thr.pub[thr.main[2].s].loc = BFD_STATE_UP
  /\ thr.kick

\* ---------------------------------------------------------------------
\* Interface bindings and the address index of one running engine.
\* Sessions are identified by their local discriminator, bindings by the
\* block mb_allocz returned; a request carries the neighbour address, the
\* local address, the interface (0: none) and its options.  chan holds
\* the open TX socket of every binding.
\* ---------------------------------------------------------------------

Locals == 1 .. MaxAddrs

BindOptions ==
  {NoOptions,
   [NoOptions EXCEPT !.min_rx_int = MaxInterval, !.passive = TRUE, !.passive_set = TRUE]}

\* bfd_find_iface_config of an engine without a multihop block whose only
\* interface pattern sets min_tx_int.
bfd_find_iface_config(iface) ==
  IF iface = 0 THEN bfd_default_iface
  ELSE [bfd_default_iface EXCEPT !.min_tx_int = MaxInterval]

Bind == [sess |-> sess, reqs |-> reqs, ifaces |-> ifaces, chan |-> chan]

\* The lookup finds sessions without an interface only.
bfd_find_session_by_addr_multihop_only(ss, addr, ifindex) ==
  IF \E id \in DOMAIN ss : ss[id].addr = addr /\ ss[id].ifindex = ifindex /\ ifindex = 0
  THEN CHOOSE id \in DOMAIN ss : ss[id].addr = addr /\ ss[id].ifindex = ifindex
  ELSE 0

\* HASH_FIND over session_hash_ip: the session with this address and
\* interface index, 0 when there is none.
bfd_find_session_by_addr(ss, addr, ifindex) ==
  IF \E id \in DOMAIN ss : ss[id].addr = addr /\ ss[id].ifindex = ifindex
  THEN CHOOSE id \in DOMAIN ss : ss[id].addr = addr /\ ss[id].ifindex = ifindex
  ELSE 0

\* The block mb_allocz returns: one that no binding of l occupies.
FreshIface(l) ==
  CHOOSE n \in 1 .. (Len(l) + 1) :
    /\ \A i \in 1 .. Len(l) : l[i].id # n
    /\ \A m \in 1 .. (n - 1) : \E i \in 1 .. Len(l) : l[i].id = m

\* bfd_get_iface without the uc++ of bfd.c:611.
bfd_get_iface_ifa_no_count(b, local, iface) ==
  LET l == b.ifaces
      hit == {i \in 1 .. Len(l) : l[i].local = local /\ l[i].iface = iface}
  IN IF hit # {}
     THEN [b |-> b, ifa |-> l[CHOOSE j \in hit : \A k \in hit : j <= k].id]
     ELSE LET id == FreshIface(l)
          IN [b |-> [b EXCEPT !.ifaces = Append(@, [id |-> id, local |-> local, iface |-> iface,
                                                     cf |-> bfd_find_iface_config(iface), uc |-> 1]),
                              !.chan = With(@, id, <<>>)],
              ifa |-> id]

\* bfd_get_iface: the first binding of iface_list with this local address
\* and interface, used once more, or a new binding with its TX socket at
\* the tail of the list.
bfd_get_iface_ifa(b, local, iface) ==
  LET l == b.ifaces
      hit == {i \in 1 .. Len(l) : l[i].local = local /\ l[i].iface = iface}
  IN IF hit # {}
     THEN LET i == CHOOSE j \in hit : \A k \in hit : j <= k
          IN [b |-> [b EXCEPT !.ifaces[i].uc = @ + 1], ifa |-> l[i].id]
     ELSE LET id == FreshIface(l)
          IN [b |-> [b EXCEPT !.ifaces = Append(@, [id |-> id, local |-> local, iface |-> iface,
                                                     cf |-> bfd_find_iface_config(iface), uc |-> 1]),
                              !.chan = With(@, id, <<>>)],
              ifa |-> id]

\* bfd_free_iface: one use less; at zero the socket is stopped and freed
\* and the binding leaves the list.
bfd_free_iface_ifa(b, n) ==
  IF n = 0 THEN b
  ELSE LET i == CHOOSE j \in 1 .. Len(b.ifaces) : b.ifaces[j].id = n
       IN IF b.ifaces[i].uc - 1 # 0
          THEN [b EXCEPT !.ifaces[i].uc = @ - 1]
          ELSE [b EXCEPT !.ifaces = SelectSeq(@, LAMBDA x : x.id # n),
                         !.chan = Without(@, n)]

\* bfd_add_session: the binding, the discriminator, both indexes and the
\* configuration merged from the binding's and the request's.
bfd_add_session_ifa(b, addr, local, iface, opts, start) ==
  LET g == bfd_get_iface_ifa(b, local, iface)
      id == bfd_get_free_id(DOMAIN b.sess, start)
      ic == g.b.ifaces[CHOOSE j \in 1 .. Len(g.b.ifaces) : g.b.ifaces[j].id = g.ifa].cf
      s == [addr |-> addr, ifa |-> g.ifa, ifindex |-> iface, loc_id |-> id,
            cf |-> bfd_merge_options(ic, opts), request_list |-> <<>>,
            notify_running |-> FALSE]
  IN [b |-> [g.b EXCEPT !.sess = With(@, id, s)], s |-> id]

\* bfd_remove_session.
bfd_remove_session_ifa(b, s) ==
  [bfd_free_iface_ifa(b, b.sess[s].ifa) EXCEPT !.sess = Without(@, s)]

\* bfd_add_request of an engine that accepts every request.
bfd_add_request_ifa(b, r, start) ==
  LET req == b.reqs[r]
      s == bfd_find_session_by_addr(b.sess, req.addr, req.iface)
      u == IF s = 0
           THEN bfd_add_session_ifa(b, req.addr, req.local, req.iface, req.opts, start)
           ELSE [b |-> b, s |-> s]
  IN [u.b EXCEPT !.sess[u.s].request_list = Append(Unlinked(@, r), r),
                 !.reqs[r].session = u.s]

\* bfd_request_session.
bfd_request_session_ifa(b, r, addr, local, iface, opts, start) ==
  bfd_add_request_ifa(
    [b EXCEPT !.reqs = With(@, r, [addr |-> addr, local |-> local, iface |-> iface,
                                   opts |-> opts, session |-> 0])],
    r, start)

\* bfd_request_free.
bfd_request_free_ifa(b, r) ==
  LET s == b.reqs[r].session
      u == [b EXCEPT !.sess[s].request_list = Unlinked(@, r), !.reqs = Without(@, r)]
  IN IF u.sess[s].request_list = <<>> /\ ~u.sess[s].notify_running
     THEN bfd_remove_session_ifa(u, s)
     ELSE u

SetBind(b) ==
  /\ sess' = b.sess
  /\ reqs' = b.reqs
  /\ ifaces' = b.ifaces
  /\ chan' = b.chan
  /\ UNCHANGED <<notify_list, tmp_list, pipe, hist, silent, trace, proto_list,
                 wait_list, cfg, ifa, thr>>

InitBind ==
  /\ sess = <<>>
  /\ reqs = <<>>
  /\ notify_list = [p \in {1} |-> <<>>]
  /\ tmp_list = [p \in {1} |-> <<>>]
  /\ pipe = [p \in {1} |-> FALSE]
  /\ chan = <<>>
  /\ hist = <<>>
  /\ silent = FALSE
  /\ trace = <<>>
  /\ ifaces = <<>>
  /\ proto_list = <<1>>
  /\ wait_list = <<>>
  /\ cfg = [p \in {1} |-> AcceptAll]
  /\ ifa = [p \in {1} |-> [cf |-> bfd_default_iface, changed |-> FALSE]]
  /\ thr = <<>>

BindRequest(addr, local, iface, opts, start) ==
  /\ Cardinality(Requests) < MaxRequests
  /\ SetBind(bfd_request_session_ifa(Bind, FreeRequest, addr, local, iface, opts, start))

BindFree(r) == SetBind(bfd_request_free_ifa(Bind, r))

BindSubmits ==
  \E addr \in Addrs : \E local \in Locals : \E iface \in ReqIfaces :
    \E opts \in BindOptions : \E start \in 0 .. (IdMod - 1) :
      BindRequest(addr, local, iface, opts, start)

BindReleases == \E r \in Requests : BindFree(r)

NextBind ==
  \/ BindSubmits
  \/ BindReleases

SpecBind == InitBind /\ [][NextBind]_vars

\* The session of Sessions with the address and interface index of
\* request r of reqs', 0 when there is none.
Keyed(r) == bfd_find_session_by_addr(sess, reqs'[r].addr, reqs'[r].iface)

\* C40: two registered sessions of the engine never share the pair of
\* neighbour address and interface index, and every request is attached
\* to the session of its pair.  A submitted request whose pair has a
\* session is attached to that session, which keeps its configuration and
\* binding, whatever local address and options the request has; a request
\* whose pair has none gets a new session whose configuration is the
\* request's options merged over the configuration of its interface.
C40_OneSessionPerAddress ==
  /\ [](/\ \A s, t \in Sessions :
             (sess[s].addr = sess[t].addr /\ sess[s].ifindex = sess[t].ifindex) => s = t
        /\ \A r \in Requests :
             /\ reqs[r].session \in Sessions
             /\ sess[reqs[r].session].addr = reqs[r].addr
             /\ sess[reqs[r].session].ifindex = reqs[r].iface)
  /\ [][\A r \in Requests' \ Requests :
          IF Keyed(r) # 0
          THEN /\ Sessions' = Sessions
               /\ reqs'[r].session = Keyed(r)
               /\ sess'[Keyed(r)].cf = sess[Keyed(r)].cf
               /\ sess'[Keyed(r)].ifa = sess[Keyed(r)].ifa
          ELSE /\ reqs'[r].session \notin Sessions
               /\ Sessions' = Sessions \cup {reqs'[r].session}
               /\ sess'[reqs'[r].session].cf =
                    bfd_merge_options(bfd_find_iface_config(reqs'[r].iface), reqs'[r].opts)
               /\ sess'[reqs'[r].session].request_list = <<r>>]_vars

\* One session holds two requests that differ in local address and in
\* options; its configuration is the one its first request asked for.
C40_Witness ==
  \E s \in Sessions :
    /\ Len(sess[s].request_list) = 2
    /\ reqs[sess[s].request_list[1]].local # reqs[sess[s].request_list[2]].local
    /\ reqs[sess[s].request_list[1]].opts # reqs[sess[s].request_list[2]].opts
    /\ sess[s].ifindex # 0
    /\ sess[s].cf = bfd_merge_options(bfd_find_iface_config(sess[s].ifindex),
                                      reqs[sess[s].request_list[1]].opts)

\* C31: the interface list holds at most one binding for a pair of local
\* address and interface; the use count of a binding is the number of
\* registered sessions whose ifa points to it and is at least one; every
\* session points to a binding of the list; the TX sockets that are open
\* are those of the bindings of the list.
C31_BindingsCounted ==
  /\ \A i, j \in 1 .. Len(ifaces) :
       (ifaces[i].local = ifaces[j].local /\ ifaces[i].iface = ifaces[j].iface) => i = j
  /\ \A i \in 1 .. Len(ifaces) :
       /\ ifaces[i].uc = Cardinality({s \in Sessions : sess[s].ifa = ifaces[i].id})
       /\ ifaces[i].uc >= 1
  /\ \A s \in Sessions : \E i \in 1 .. Len(ifaces) : ifaces[i].id = sess[s].ifa
  /\ DOMAIN chan = {ifaces[i].id : i \in 1 .. Len(ifaces)}

\* Two sessions to different neighbours share the one binding of their
\* local address and interface.
C31_Witness ==
  /\ Cardinality(Sessions) = 2
  /\ Len(ifaces) = 1
  /\ ifaces[1].uc = 2
  /\ \A s \in Sessions : sess[s].ifa = ifaces[1].id

\* ---------------------------------------------------------------------
\* The TX interval of one session that is Down: the local interval set
\* by bfd_session_set_min_tx, the remote one taken from received packets.
\* The intervals are u32 microseconds; no intermediate value of
\* bfd_session_update_tx_interval leaves 0 .. tx_int.
\* ---------------------------------------------------------------------

MaxTx == 12

TxIntervals == (1 .. MaxTx) \cup {1000005, 2147483647}

InitTx ==
  /\ sess = [sid \in {1} |-> bfd_add_session(1, 1, NoOptions, <<1>>)]
  /\ reqs = [r \in {1} |-> bfd_request_session(1, NoOptions, sess[1])]
  /\ notify_list = [p \in {1} |-> <<>>]
  /\ tmp_list = [p \in {1} |-> <<>>]
  /\ pipe = [p \in {1} |-> FALSE]
  /\ chan = [sid \in {1} |-> <<>>]
  /\ hist = [r \in {1} |-> <<>>]
  /\ silent = FALSE
  /\ trace = [sid \in DOMAIN sess |-> <<>>]
  /\ ifaces = [p \in DOMAIN pipe |-> 1]
  /\ proto_list = <<1>>
  /\ wait_list = <<>>
  /\ cfg = [p \in DOMAIN pipe |-> AcceptAll]
  /\ ifa = [p \in DOMAIN pipe |-> [cf |-> bfd_default_iface, changed |-> FALSE]]
  /\ thr = <<>>

\* bfd_session_set_min_tx(s, val)
TxLocal(sid, val) ==
  /\ sess' = [sess EXCEPT ![sid] = bfd_session_set_min_tx(@, val)]
  /\ UNCHANGED <<reqs, notify_list, tmp_list, pipe, chan, hist, silent, trace, ifaces,
                 proto_list, wait_list, cfg, ifa, thr>>

\* A received packet that announces the required min RX interval val:
\* bfd_session_process_ctl updates the TX interval when it changed.
TxRemote(sid, val) ==
  /\ sess' = [sess EXCEPT ![sid] =
                IF val # @.rem_min_rx_int
                THEN bfd_session_update_tx_interval([@ EXCEPT !.rem_min_rx_int = val])
                ELSE @]
  /\ UNCHANGED <<reqs, notify_list, tmp_list, pipe, chan, hist, silent, trace, ifaces,
                 proto_list, wait_list, cfg, ifa, thr>>

TxLocals == \E sid \in Sessions : \E val \in TxIntervals : TxLocal(sid, val)
TxRemotes == \E sid \in Sessions : \E val \in TxIntervals \cup {0} : TxRemote(sid, val)

NextTx ==
  \/ TxLocals
  \/ TxRemotes

SpecTx == InitTx /\ [][NextTx]_vars

\* The effective interval of session sid.
EffectiveTx(sid) == MAX(sess[sid].des_min_tx_int, sess[sid].rem_min_rx_int)

\* C32: with T the effective interval, the TX timer is programmed with
\* recurrent >= 0.75 * T, recurrent + randomize <= 0.90 * T and
\* randomize >= 0.  (Written with T - recurrent <= T / 4 and
\* T - recurrent - randomize >= T / 10.)
C32_JitterWindow ==
  \A sid \in Sessions :
    /\ 4 * (EffectiveTx(sid) - sess[sid].tx_recurrent) <= EffectiveTx(sid)
    /\ 10 * (EffectiveTx(sid) - sess[sid].tx_recurrent - sess[sid].tx_randomize)
         >= EffectiveTx(sid)
    /\ sess[sid].tx_randomize >= 0

\* ---------------------------------------------------------------------
\* The configured neighbours of one engine.  thr holds the neighbour list
\* of the current configuration (neigh_list), the entries of the
\* neighbour cache for the one interface (nb, by address: data and
\* scope) and the parity of the configuration (gen); reqs holds the
\* requests that are allocated.  A neighbour that is not multihop is on
\* that interface, a multihop one on none.  A request is fresh when the
\* last step allocated it (its block may be one that was freed in the
\* same step).  nb.data points to an entry
\* of the current list (cur), of the list being replaced (old), of a
\* configuration that is gone (freed), or nowhere (none).
\* ---------------------------------------------------------------------

MaxNeighbors == 2

NeighKeys == [addr : Addrs, local : Locals, multihop : BOOLEAN]

NeighLists == UNION {[1 .. n -> NeighKeys] : n \in 0 .. MaxNeighbors}

NoData == [in |-> "none", at |-> 0]

\* A neighbour as the configuration parser leaves it.
bfd_neighbor(k) ==
  [addr |-> k.addr, local |-> k.local, multihop |-> k.multihop,
   active |-> FALSE, req |-> 0, neigh |-> 0]

\* The request bfd_request_session returns: one not allocated so far.
NewRequest(rs) ==
  CHOOSE r \in 1 .. (Cardinality(DOMAIN rs) + 1) : r \notin DOMAIN rs

\* bfd_neigh_notify for the cache entry of address a, whose data points
\* to entry data.at of list l.
bfd_neigh_notify(t, l, a) ==
  LET d == t.nb[a].data
      n == l[d.at]
  IN IF d.in = "none" THEN [t |-> t, l |-> l]
     ELSE IF t.nb[a].scope > 0 /\ n.req = 0
     THEN LET r == NewRequest(t.reqs)
          IN [t |-> [t EXCEPT !.reqs = With(@, r, [addr |-> n.addr, local |-> n.local, iface |-> 1, fresh |-> TRUE])],
              l |-> [l EXCEPT ![d.at].req = r]]
     ELSE IF t.nb[a].scope <= 0 /\ n.req # 0
     THEN [t |-> [t EXCEPT !.reqs = Without(@, n.req)], l |-> [l EXCEPT ![d.at].req = 0]]
     ELSE [t |-> t, l |-> l]

\* bfd_start_neighbor for entry j of list l.
bfd_start_neighbor(t, l, j) ==
  LET n == l[j]
      m == [l EXCEPT ![j].active = TRUE]
  IN IF n.multihop
     THEN LET r == NewRequest(t.reqs)
          IN [t |-> [t EXCEPT !.reqs = With(@, r, [addr |-> n.addr, local |-> n.local, iface |-> 0, fresh |-> TRUE])],
              l |-> [m EXCEPT ![j].req = r]]
     ELSE IF t.nb[n.addr].data.in # "none"
     THEN [t |-> t, l |-> m]
     ELSE LET u == [t EXCEPT !.nb[n.addr].data = [in |-> "cur", at |-> j]]
              k == [m EXCEPT ![j].neigh = n.addr]
          IN IF u.nb[n.addr].scope > 0 THEN bfd_neigh_notify(u, k, n.addr)
             ELSE [t |-> u, l |-> k]

\* bfd_stop_neighbor for the entry n of the list being replaced.
bfd_stop_neighbor(t, n) ==
  LET u == IF n.neigh # 0 THEN [t EXCEPT !.nb[n.neigh].data = NoData] ELSE t
  IN IF n.req # 0 THEN [u EXCEPT !.reqs = Without(@, n.req)] ELSE u

bfd_same_neighbor(x, y) ==
  x.addr = y.addr /\ x.local = y.local /\ x.multihop = y.multihop

\* The first walk of bfd_reconfigure_neighbors from entry i of the old
\* list on: the first entry of the new list l that is the same neighbour
\* takes neigh and req, an entry without one is stopped.
RECURSIVE ReconfigureOld(_, _, _, _)
ReconfigureOld(t, old, l, i) ==
  IF i > Len(old) THEN [t |-> t, l |-> l]
  ELSE LET on == old[i]
           same == {j \in 1 .. Len(l) : bfd_same_neighbor(l[j], on)}
       IN IF same # {}
          THEN LET j == CHOOSE x \in same : \A y \in same : x <= y
                   u == IF on.neigh # 0
                        THEN [t EXCEPT !.nb[on.neigh].data = [in |-> "cur", at |-> j]]
                        ELSE t
               IN ReconfigureOld(u, old,
                                 [l EXCEPT ![j].neigh = on.neigh, ![j].req = on.req,
                                           ![j].active = TRUE],
                                 i + 1)
          ELSE ReconfigureOld(bfd_stop_neighbor(t, on), old, l, i + 1)

\* The second walk: every entry of the new list that is not active is
\* started.
RECURSIVE ReconfigureNew(_, _, _)
ReconfigureNew(t, l, j) ==
  IF j > Len(l) THEN [t |-> t, l |-> l]
  ELSE IF l[j].active THEN ReconfigureNew(t, l, j + 1)
  ELSE LET g == bfd_start_neighbor(t, l, j)
       IN ReconfigureNew(g.t, g.l, j + 1)

\* bfd_reconfigure_neighbors with the new list of keys new; afterwards the
\* new configuration is the current one and the old one is freed.
bfd_reconfigure_neighbors(t, new) ==
  LET held == [t EXCEPT !.nb = [a \in DOMAIN @ |->
                 IF @[a].data.in = "cur" THEN [@[a] EXCEPT !.data.in = "old"] ELSE @[a]]]
      a == ReconfigureOld(held, t.neigh_list, [j \in 1 .. Len(new) |-> bfd_neighbor(new[j])], 1)
      b == ReconfigureNew(a.t, a.l, 1)
  IN [b.t EXCEPT !.neigh_list = b.l,
                 !.gen = 1 - @,
                 !.nb = [x \in DOMAIN @ |->
                   IF @[x].data.in = "old" THEN [@[x] EXCEPT !.data = [in |-> "freed", at |-> 0]]
                   ELSE @[x]]]

\* fresh marks the requests the step under way created.
Neigh ==
  [neigh_list |-> thr.neigh_list, nb |-> thr.nb, gen |-> thr.gen,
   reqs |-> [r \in Requests |-> [reqs[r] EXCEPT !.fresh = FALSE]]]

SetNeigh(t) ==
  /\ thr' = [neigh_list |-> t.neigh_list, nb |-> t.nb, gen |-> t.gen]
  /\ reqs' = t.reqs
  /\ UNCHANGED <<sess, notify_list, tmp_list, pipe, chan, hist, silent, trace, ifaces,
                 proto_list, wait_list, cfg, ifa>>

\* bfd_start: every neighbour of the configuration is started; the
\* neighbour cache knows each address as reachable or not.
InitNeigh ==
  /\ sess = <<>>
  /\ notify_list = [p \in {1} |-> <<>>]
  /\ tmp_list = [p \in {1} |-> <<>>]
  /\ pipe = [p \in {1} |-> FALSE]
  /\ chan = <<>>
  /\ hist = <<>>
  /\ silent = FALSE
  /\ trace = <<>>
  /\ ifaces = [p \in {1} |-> 0]
  /\ proto_list = <<1>>
  /\ wait_list = <<>>
  /\ cfg = [p \in {1} |-> AcceptAll]
  /\ ifa = [p \in {1} |-> [cf |-> bfd_default_iface, changed |-> FALSE]]
  /\ \E keys \in NeighLists : \E scope \in [Addrs -> {0, 1}] :
       LET t == [neigh_list |-> <<>>, gen |-> 0, reqs |-> <<>>,
                 nb |-> [a \in Addrs |-> [data |-> NoData, scope |-> scope[a]]]]
           g == ReconfigureNew(t, [j \in 1 .. Len(keys) |-> bfd_neighbor(keys[j])], 1)
       IN /\ thr = [neigh_list |-> g.l, nb |-> g.t.nb, gen |-> 0]
          /\ reqs = g.t.reqs

\* The requests no neighbour of the current list holds.
Orphans == {r \in Requests : \A j \in 1 .. Len(thr.neigh_list) : thr.neigh_list[j].req # r}

\* bfd_reconfigure with a configuration whose neighbour list is new; a
\* run is followed until a request is orphaned.
NeighReconfigure(new) ==
  /\ Orphans = {}
  /\ SetNeigh(bfd_reconfigure_neighbors(Neigh, new))

\* The neighbour cache reports address a with scope sc.  A data pointer
\* into a freed configuration makes bfd_neigh_notify read freed memory:
\* it returns, or creates a request whose handle is written there.
NeighNotify(a, sc, lost) ==
  /\ thr.nb[a].scope # sc
  /\ Orphans = {}
  /\ LET t == [Neigh EXCEPT !.nb[a].scope = sc]
     IN IF t.nb[a].data.in = "freed"
        THEN SetNeigh(IF lost /\ sc > 0
                      THEN [t EXCEPT !.reqs = With(@, NewRequest(@),
                                                   [addr |-> a, local |-> 0, iface |-> 1,
                                                    fresh |-> TRUE])]
                      ELSE t)
        ELSE LET g == bfd_neigh_notify(t, t.neigh_list, a)
             IN SetNeigh([g.t EXCEPT !.neigh_list = g.l])

NeighReconfigures == \E new \in NeighLists : NeighReconfigure(new)
NeighNotifies == \E a \in Addrs : \E sc \in {0, 1} : \E lost \in BOOLEAN : NeighNotify(a, sc, lost)

NextNeigh ==
  \/ NeighReconfigures
  \/ NeighNotifies

SpecNeigh == InitNeigh /\ [][NextNeigh]_vars

\* The keys of a neighbour list.
KeysOf(l) == [j \in 1 .. Len(l) |-> [addr |-> l[j].addr, local |-> l[j].local,
                                     multihop |-> l[j].multihop]]

\* C33: on every step of bfd_reconfigure_neighbors, an old neighbour
\* that is the same as a new one has its request and its cache entry
\* with an entry of the new list that is the same neighbour, the request
\* still allocated; the request of an old neighbour without one is
\* released; a new neighbour without one is started; and when the new
\* list is the old one no request is created or released.
C33_NeighborsTransferred ==
  [][thr'.gen # thr.gen =>
       LET old == thr.neigh_list
           new == thr'.neigh_list
       IN /\ \A i \in 1 .. Len(old) :
               IF \E j \in 1 .. Len(new) : bfd_same_neighbor(new[j], old[i])
               THEN /\ \E j \in 1 .. Len(new) :
                         /\ bfd_same_neighbor(new[j], old[i])
                         /\ new[j].req = old[i].req
                         /\ new[j].neigh = old[i].neigh
                    /\ old[i].req # 0 =>
                         (old[i].req \in Requests' /\ ~reqs'[old[i].req].fresh)
               ELSE old[i].req # 0 =>
                      (old[i].req \in Requests' => reqs'[old[i].req].fresh)
          /\ \A j \in 1 .. Len(new) :
               (\A i \in 1 .. Len(old) : ~bfd_same_neighbor(new[j], old[i])) =>
                  /\ new[j].active
                  /\ new[j].multihop =>
                       (new[j].req \in Requests' /\ reqs'[new[j].req].fresh)
          /\ KeysOf(new) = KeysOf(old) =>
               (Requests' = Requests /\ \A r \in Requests' : ~reqs'[r].fresh)]_vars

====
